---- MODULE Spec2Model ----
(***************************************************************************)
(* A model of the "network" package: the form transmission protocol        *)
(* (form.py), the socket connection (connection.py) and the commanding     *)
(* protocol (protocol/commanding.py).                                      *)
(*                                                                         *)
(* Text and byte strings are sequences of one-character strings, so that   *)
(* prefixes, replacements, splits and decimal renderings are computed the  *)
(* way the Python code computes them.  A connection is a pair of byte      *)
(* queues, one per direction; a sendall appends to the queue of the other  *)
(* end and a blocking receive is enabled once the bytes it waits for are   *)
(* there.  Every read of the model completes within its timeout: the       *)
(* peers are timely.                                                       *)
(***************************************************************************)
EXTENDS Integers, Sequences, FiniteSets, Bags, TLC

VARIABLES
    wire,           \* wire[e]: the bytes sent to end e of the connection and not yet read there
    closed,         \* closed[e]: end e has closed its socket
    tx,             \* tx[e]: the FormTransmitterThread of end e (one at a time)
    rx,             \* rx[e]: the FormReceiverThread of end e (one at a time)
    txLog,          \* txLog[e]: what the transmitter of end e has done on the connection, in order
    rxLog,          \* rxLog[e]: what the receiver of end e has done on the connection, in order
    party,          \* who runs at each end: the class of this package, or a peer
    sock,           \* a SocketWrapper and the call of connect() on it
    client,         \* the CommandingClient thread (end A)
    handler,        \* the CommandingHandler thread (end B)
    call_queue,     \* CommandingClient.call_queue, in the order of the puts
    response_dict,  \* CommandingClient.response_dict, a set of [call_id, response]
    callers,        \* the threads that call execute_command
    history         \* what has happened so far: counts and orders the properties speak about

formVars == <<tx, rx, txLog, rxLog>>
connVars == <<wire, closed>>
sessionVars == <<party, sock, client, handler, call_queue, response_dict, callers, history>>
vars == <<wire, closed, tx, rx, txLog, rxLog,
          party, sock, client, handler, call_queue, response_dict, callers, history>>

Ends == {"A", "B"}
Other(e) == IF e = "A" THEN "B" ELSE "A"

\* No SocketWrapper is in use
NoSocket ==
    [pc |-> "none", connected |-> FALSE, given |-> 0, attempts |-> 0, made |-> 0,
     exception |-> "None"]

(***************************************************************************)
(* Strings                                                                 *)
(***************************************************************************)
NL == "\n"
SP == " "
TAB == "\t"
NoneSeq == <<"None">>
Digits == <<"0", "1", "2", "3", "4", "5", "6", "7", "8", "9">>
IsDigit(c) == \E i \in 1..10 : Digits[i] = c
DigitVal(c) == (CHOOSE i \in 1..10 : Digits[i] = c) - 1

\* str(n) of a non-negative integer
RECURSIVE DecStr(_)
DecStr(n) ==
    IF n < 10 THEN <<Digits[n + 1]>>
    ELSE DecStr(n \div 10) \o <<Digits[(n % 10) + 1]>>

RECURSIVE DecVal(_)
DecVal(s) ==
    IF Len(s) = 0 THEN 0
    ELSE DecVal(SubSeq(s, 1, Len(s) - 1)) * 10 + DigitVal(s[Len(s)])

\* s[:len(p)] == p
StartsWith(s, p) == Len(s) >= Len(p) /\ SubSeq(s, 1, Len(p)) = p

\* s.replace(old, new), old not empty
RECURSIVE Replace(_, _, _)
Replace(s, old, new) ==
    IF Len(s) < Len(old) \/ Len(s) = 0 THEN s
    ELSE IF StartsWith(s, old)
         THEN new \o Replace(SubSeq(s, Len(old) + 1, Len(s)), old, new)
         ELSE <<s[1]>> \o Replace(Tail(s), old, new)

\* s.split(c)
RECURSIVE SplitOn(_, _)
SplitOn(s, c) ==
    IF \A i \in 1..Len(s) : s[i] # c THEN <<s>>
    ELSE LET i == CHOOSE k \in 1..Len(s) : s[k] = c /\ \A j \in 1..(k - 1) : s[j] # c
         IN  <<SubSeq(s, 1, i - 1)>> \o SplitOn(SubSeq(s, i + 1, Len(s)), c)
Split(s) == SplitOn(s, NL)

\* "\n".join(lines)
RECURSIVE Join(_)
Join(lines) ==
    IF Len(lines) = 0 THEN <<>>
    ELSE IF Len(lines) = 1 THEN lines[1]
    ELSE lines[1] \o <<NL>> \o Join(Tail(lines))

\* s.strip() for the white space of the model's alphabet
RECURSIVE LStrip(_)
LStrip(s) == IF Len(s) > 0 /\ s[1] = SP THEN LStrip(Tail(s)) ELSE s
RECURSIVE RStrip(_)
RStrip(s) == IF Len(s) > 0 /\ s[Len(s)] = SP THEN RStrip(SubSeq(s, 1, Len(s) - 1)) ELSE s
Strip(s) == RStrip(LStrip(s))

\* int(s): the value, or IntError where int() raises ValueError (the model's
\* alphabet has no sign and no underscore)
IntError == -1
ParseInt(s) ==
    LET t == Strip(s)
    IN  IF Len(t) = 0 \/ \E i \in 1..Len(t) : ~IsDigit(t[i]) THEN IntError ELSE DecVal(t)

\* The first byte of a pickle (the PROTO opcode 0x80) is no start of a UTF-8 character
ByteProto == "0x80"
Utf8Ok(b) == \A i \in 1..Len(b) : b[i] # ByteProto

HasNewline(b) == \E i \in 1..Len(b) : b[i] = NL
FirstNewline(b) == CHOOSE k \in 1..Len(b) : b[k] = NL /\ \A j \in 1..(k - 1) : b[j] # NL
\* the bytes before the first newline, and what follows it
LineOf(b) == SubSeq(b, 1, FirstNewline(b) - 1)
AfterLine(b) == SubSeq(b, FirstNewline(b) + 1, Len(b))

IsPrefix(s, t) == Len(s) <= Len(t) /\ SubSeq(t, 1, Len(s)) = s

(***************************************************************************)
(* Appendix values and the two appendix encoders.  A value is a record     *)
(* [t, v]: t its Python type and v its content as a sequence.              *)
(***************************************************************************)
IntVal(n) == [t |-> "int", v |-> <<n>>]
StrVal(s) == [t |-> "str", v |-> s]
ListVal(items) == [t |-> "list", v |-> items]
DictVal(pairs) == [t |-> "dict", v |-> pairs]
BytesVal(b) == [t |-> "bytes", v |-> b]
ErrVal(kind) == [t |-> "error", v |-> <<kind>>]
Pair(key, x) == [k |-> key, x |-> x]

EmptyDict == DictVal(<<>>)
EmptyList == ListVal(<<>>)
EmptyStr == StrVal(<<>>)
ListH == ListVal(<<StrVal(<<"h">>)>>)
DictA1 == DictVal(<<Pair(<<"a">>, IntVal(1))>>)
PosArgsKey == <<"p", "o", "s", "_", "a", "r", "g", "s">>
KwArgsKey == <<"k", "w", "_", "a", "r", "g", "s">>
\* the appendix of a CommandForm with no arguments
CallArgs == DictVal(<<Pair(PosArgsKey, EmptyList), Pair(KwArgsKey, EmptyDict)>>)

ReturnKey == <<"r", "e", "t", "u", "r", "n">>
\* the appendix of ReturnForm(1)
DictReturn1 == DictVal(<<Pair(ReturnKey, IntVal(1))>>)

\* len(value); an int has none (TypeError)
HasLen(x) == x.t # "int"
ValueLen(x) == Len(x.v)

\* json.dumps(value)
RECURSIVE JsonDumps(_)
RECURSIVE JsonItems(_)
RECURSIVE JsonPairs(_)
JsonItems(items) ==
    IF Len(items) = 0 THEN <<>>
    ELSE IF Len(items) = 1 THEN JsonDumps(items[1])
    ELSE JsonDumps(items[1]) \o <<",", SP>> \o JsonItems(Tail(items))
JsonPairs(pairs) ==
    IF Len(pairs) = 0 THEN <<>>
    ELSE LET one == <<"\"">> \o pairs[1].k \o <<"\"", ":", SP>> \o JsonDumps(pairs[1].x)
         IN  IF Len(pairs) = 1 THEN one ELSE one \o <<",", SP>> \o JsonPairs(Tail(pairs))
JsonDumps(x) ==
    CASE x.t = "int" -> DecStr(x.v[1])
      [] x.t = "str" -> <<"\"">> \o x.v \o <<"\"">>
      [] x.t = "list" -> <<"[">> \o JsonItems(x.v) \o <<"]">>
      [] x.t = "dict" -> <<"{">> \o JsonPairs(x.v) \o <<"}">>

\* The values the model encodes
AppendixValues ==
    {EmptyDict, EmptyList, EmptyStr, ListH, DictA1, CallArgs, DictReturn1, IntVal(5)}

\* json.loads on the texts json.dumps produces for AppendixValues; any
\* other text is taken to be no JSON document (ValueError)
JsonLoads(s) ==
    IF \E x \in AppendixValues : JsonDumps(x) = s
    THEN CHOOSE x \in AppendixValues : JsonDumps(x) = s
    ELSE ErrVal("ValueError")

JsonEncode(x) == JsonDumps(x)
JsonDecode(b) ==
    IF ~Utf8Ok(b) THEN ErrVal("ValueError")
    ELSE IF Len(Strip(b)) = 0 THEN EmptyList
    ELSE JsonLoads(b)

\* pickle.dumps: the PROTO opcode, the value's opcodes (written as its JSON
\* text), the STOP opcode "."
PickleEncode(x) == <<ByteProto>> \o JsonDumps(x) \o <<".">>
PickleDecode(b) ==
    IF \E x \in AppendixValues : PickleEncode(x) = b
    THEN CHOOSE x \in AppendixValues : PickleEncode(x) = b
    ELSE ErrVal("UnpicklingError")

Encoders == {"json", "pickle"}
Encode(enc, x) == IF enc = "json" THEN JsonEncode(x) ELSE PickleEncode(x)
Decode(enc, b) == IF enc = "json" THEN JsonDecode(b) ELSE PickleDecode(b)

(***************************************************************************)
(* Form                                                                    *)
(***************************************************************************)
NoForm ==
    [title |-> NoneSeq, body |-> NoneSeq, appendix |-> ErrVal("None"),
     appendix_encoded |-> NoneSeq, encoder |-> "json", error |-> "None"]

\* Form.__init__: check_title, evaluate_body, evaluate_appendix.  The body is
\* given as a string; error is the exception the constructor raises
NewForm(title, body, appendix, enc) ==
    LET decoded == Decode(enc, appendix.v)
    IN  IF HasNewline(title)
        THEN [NoForm EXCEPT !.error = "ValueError"]
        ELSE IF appendix.t = "bytes"
        THEN [title |-> title, body |-> body, appendix |-> decoded,
              appendix_encoded |-> appendix.v, encoder |-> enc,
              error |-> IF decoded.t = "error" THEN decoded.v[1] ELSE "none"]
        ELSE [title |-> title, body |-> body, appendix |-> appendix,
              appendix_encoded |-> Encode(enc, appendix), encoder |-> enc,
              error |-> "none"]

\* A form that is empty when its encoded appendix has no bytes
FormEmptyEncoded(f) == Len(f.body) = 0 /\ Len(f.appendix_encoded) = 0

\* Form.empty and Form.valid; FormValidRaises: len() of the appendix raises
FormEmpty(f) == Len(f.body) = 0 /\ ValueLen(f.appendix) = 0
FormValidRaises(f) ==
    Len(Replace(f.title, <<SP>>, <<>>)) # 0 /\ Len(f.body) = 0 /\ ~HasLen(f.appendix)
FormValid(f) ==
    IF Len(Replace(f.title, <<SP>>, <<>>)) = 0 THEN FALSE
    ELSE IF FormEmpty(f) THEN FALSE
    ELSE TRUE

(***************************************************************************)
(* FormTransmitterThread                                                   *)
(***************************************************************************)
Ack == <<"a", "c", "k">>

\* check_separation: the exception it raises, or "none"
CheckSeparation(sep) ==
    IF HasNewline(sep) THEN "ValueError"
    ELSE IF Len(Replace(sep, <<SP>>, <<>>)) = 0 THEN "ValueError"
    ELSE "none"

\* A check_body_string that finds no line
BodyCollidesNever(body, sep) == FALSE

\* check_body_string: some line of the body has the separation as its prefix
BodyCollides(body, sep) ==
    \E i \in 1..Len(Split(body)) : StartsWith(Split(body)[i], sep)

\* A transmitter that leaves every line as it is
AdjustLinesNone(lines, sep) == lines

\* An adjustment that puts the space behind the line
AdjustLinesBack(lines, sep) ==
    [i \in 1..Len(lines) |->
        IF StartsWith(lines[i], sep) THEN lines[i] \o <<SP>> ELSE lines[i]]

\* adjust_body_string
AdjustLines(lines, sep) ==
    [i \in 1..Len(lines) |->
        IF StartsWith(lines[i], sep) THEN <<SP>> \o lines[i] ELSE lines[i]]
AdjustBody(body, sep) == Join(AdjustLines(Split(body), sep))

\* assemble_separator
AssembleSeparator(sep, form) == sep \o DecStr(Len(form.appendix_encoded))

IdleTx ==
    [pc |-> "idle", form |-> NoForm, orig |-> NoForm,
     separation |-> NoneSeq, adjust |-> FALSE, i |-> 0, exception |-> "None",
     running |-> FALSE, finished |-> FALSE]

\* FormTransmitterThread.__init__ and start(); orig is the form as it was
\* given, form the form after adjust_body_string; pc "rejected": the
\* constructor raised.  separation and adjust are the arguments it was
\* called with
NewTx(form, sep, adjust) ==
    LET err ==
            IF form.error # "none" THEN form.error
            ELSE IF FormValidRaises(form) THEN "TypeError"
            ELSE IF ~FormValid(form) THEN "ValueError"
            ELSE IF CheckSeparation(sep) # "none" THEN CheckSeparation(sep)
            ELSE IF ~adjust /\ BodyCollides(form.body, sep) THEN "ValueError"
            ELSE "none"
    IN  IF err # "none"
        THEN [IdleTx EXCEPT !.pc = "rejected", !.orig = form, !.exception = err,
                            !.separation = sep, !.adjust = adjust]
        ELSE [pc |-> "send_title",
              form |-> IF adjust THEN [form EXCEPT !.body = AdjustBody(form.body, sep)]
                       ELSE form,
              orig |-> form, separation |-> sep, adjust |-> adjust, i |-> 1,
              exception |-> "None",
              running |-> FALSE, finished |-> FALSE]

\* A transmitter that skips the wait after the separation line
TxNextStepNoMarkerAck(pc, t) ==
    CASE pc = "send_title" -> "ack_title"
      [] pc = "ack_title" -> "send_line"
      [] pc = "send_line" -> "ack_line"
      [] pc = "ack_line" ->
            IF t.i < Len(Split(t.form.body)) THEN "send_line" ELSE "send_separator"
      [] pc = "send_separator" -> "send_appendix"
      [] pc = "ack_separator" -> "send_appendix"
      [] pc = "send_appendix" -> "ack_appendix"
      [] pc = "ack_appendix" -> "finished"

\* The step of run() and send_body() that follows step pc of transmitter t
TxNextStep(pc, t) ==
    CASE pc = "send_title" -> "ack_title"
      [] pc = "ack_title" -> "send_line"
      [] pc = "send_line" -> "ack_line"
      [] pc = "ack_line" ->
            IF t.i < Len(Split(t.form.body)) THEN "send_line" ELSE "send_separator"
      [] pc = "send_separator" -> "ack_separator"
      [] pc = "ack_separator" -> "send_appendix"
      [] pc = "send_appendix" -> "ack_appendix"
      [] pc = "ack_appendix" -> "finished"

TxAckSteps == {"ack_title", "ack_line", "ack_separator", "ack_appendix"}
TxSendSteps == {"send_title", "send_line", "send_separator", "send_appendix"}

\* sendall on end e: the bytes arrive at the other end
Send(e, bytes) == [wire EXCEPT ![Other(e)] = @ \o bytes]

\* send_title
TxSendTitle(e) ==
    /\ tx[e].pc = "send_title"
    /\ ~closed[e]
    /\ wire' = Send(e, tx[e].form.title \o <<NL>>)
    /\ tx' = [tx EXCEPT ![e].pc = TxNextStep("send_title", tx[e]), ![e].running = TRUE]
    /\ txLog' = [txLog EXCEPT ![e] = Append(@, "title")]
    /\ UNCHANGED <<closed, rx, rxLog, sessionVars>>

\* send_body: one line of the body
TxSendBodyLine(e) ==
    /\ tx[e].pc = "send_line"
    /\ ~closed[e]
    /\ wire' = Send(e, Split(tx[e].form.body)[tx[e].i] \o <<NL>>)
    /\ tx' = [tx EXCEPT ![e].pc = TxNextStep("send_line", tx[e])]
    /\ txLog' = [txLog EXCEPT ![e] = Append(@, "line")]
    /\ UNCHANGED <<closed, rx, rxLog, sessionVars>>

\* send_body: the separation line
TxSendSeparator(e) ==
    /\ tx[e].pc = "send_separator"
    /\ ~closed[e]
    /\ wire' = Send(e, AssembleSeparator(tx[e].separation, tx[e].form) \o <<NL>>)
    /\ tx' = [tx EXCEPT ![e].pc = TxNextStep("send_separator", tx[e])]
    /\ txLog' = [txLog EXCEPT ![e] = Append(@, "marker")]
    /\ UNCHANGED <<closed, rx, rxLog, sessionVars>>

\* A transmitter that ends the appendix with a newline
AppendixBytesWithNewline(form) == form.appendix_encoded \o <<NL>>

\* send_appendix: the bytes it writes
AppendixBytes(form) == form.appendix_encoded

\* send_appendix
TxSendAppendix(e) ==
    /\ tx[e].pc = "send_appendix"
    /\ ~closed[e]
    /\ wire' = Send(e, AppendixBytes(tx[e].form))
    /\ tx' = [tx EXCEPT ![e].pc = TxNextStep("send_appendix", tx[e])]
    /\ txLog' = [txLog EXCEPT ![e] = Append(@, "appendix")]
    /\ UNCHANGED <<closed, rx, rxLog, sessionVars>>

\* wait_ack: receive_length_bytes(3, timeout), then the step that follows it
TxWaitAck(e) ==
    /\ tx[e].pc \in TxAckSteps
    /\ ~closed[e]
    /\ Len(wire[e]) >= 3
    /\ wire' = [wire EXCEPT ![e] = SubSeq(@, 4, Len(@))]
    /\ IF SubSeq(wire[e], 1, 3) # Ack
       THEN /\ tx' = [tx EXCEPT ![e].pc = "raised", ![e].exception = "ValueError"]
            /\ txLog' = txLog
       ELSE /\ tx' = [tx EXCEPT
                        ![e].pc = TxNextStep(tx[e].pc, tx[e]),
                        ![e].i = IF tx[e].pc = "ack_line" THEN @ + 1 ELSE @,
                        ![e].running = TxNextStep(tx[e].pc, tx[e]) # "finished",
                        ![e].finished = TxNextStep(tx[e].pc, tx[e]) = "finished"]
            /\ txLog' = [txLog EXCEPT ![e] = Append(@, "ack")]
    /\ UNCHANGED <<closed, rx, rxLog, sessionVars>>

(***************************************************************************)
(* FormReceiverThread                                                      *)
(***************************************************************************)
IdleRx ==
    [pc |-> "idle", separation |-> NoneSeq, title |-> NoneSeq,
     lines |-> <<>>, body |-> NoneSeq, appendix_length |-> -1,
     appendix |-> NoneSeq, form |-> NoForm, exception |-> "None",
     running |-> FALSE, finished |-> FALSE]

\* FormReceiverThread.__init__, start() and the first statement of run()
NewRx(sep) ==
    [IdleRx EXCEPT !.pc = "receive_title", !.separation = sep, !.running = TRUE]

RxReadSteps == {"receive_title", "receive_body", "receive_appendix"}

\* checkup_separation
CheckupSeparation(line, sep) == Len(line) > Len(sep) /\ SubSeq(line, 1, Len(sep)) = sep

\* process_separation: the appendix length, or IntError where int() raises
ProcessSeparation(line, sep) == ParseInt(Replace(line, sep, <<>>))

\* Connection._check_length
CheckLength(n) == IF n > 0 THEN "none" ELSE "ValueError"

\* A receiver that sets its flags as after a complete run when it raises
RxRaiseFinished(r, kind) ==
    [r EXCEPT !.pc = "raised", !.exception = kind, !.running = FALSE, !.finished = TRUE]

RxRaise(r, kind) == [r EXCEPT !.pc = "raised", !.exception = kind]

\* receive_title, send_ack
RxReceiveTitle(e) ==
    /\ rx[e].pc = "receive_title"
    /\ ~closed[e]
    /\ HasNewline(wire[e])
    /\ LET line == LineOf(wire[e])
       IN  IF ~Utf8Ok(line)
           THEN /\ rx' = [rx EXCEPT ![e] = RxRaise(@, "ValueError")]
                /\ wire' = [wire EXCEPT ![e] = AfterLine(@)]
                /\ rxLog' = rxLog
           ELSE /\ rx' = [rx EXCEPT ![e].pc = "receive_body", ![e].title = line]
                /\ wire' = [wire EXCEPT ![e] = AfterLine(@),
                                        ![Other(e)] = @ \o Ack]
                /\ rxLog' = [rxLog EXCEPT ![e] = @ \o <<"title", "ack">>]
    /\ UNCHANGED <<closed, tx, txLog, sessionVars>>

\* receive_body: one line; a body line is acknowledged, the separation line
\* is processed and then acknowledged by run()
RxReceiveBody(e) ==
    /\ rx[e].pc = "receive_body"
    /\ ~closed[e]
    /\ HasNewline(wire[e])
    /\ LET line == LineOf(wire[e])
           length == ProcessSeparation(line, rx[e].separation)
       IN  IF ~Utf8Ok(line)
           THEN /\ rx' = [rx EXCEPT ![e] = RxRaise(@, "ValueError")]
                /\ wire' = [wire EXCEPT ![e] = AfterLine(@)]
                /\ rxLog' = rxLog
           ELSE IF ~CheckupSeparation(line, rx[e].separation)
           THEN /\ rx' = [rx EXCEPT ![e].lines = Append(@, line)]
                /\ wire' = [wire EXCEPT ![e] = AfterLine(@),
                                        ![Other(e)] = @ \o Ack]
                /\ rxLog' = [rxLog EXCEPT ![e] = @ \o <<"line", "ack">>]
           ELSE IF length = IntError
           THEN /\ rx' = [rx EXCEPT ![e] = RxRaise(@, "ValueError")]
                /\ wire' = [wire EXCEPT ![e] = AfterLine(@)]
                /\ rxLog' = [rxLog EXCEPT ![e] = Append(@, "marker")]
           ELSE /\ rx' = [rx EXCEPT ![e].pc = "receive_appendix",
                                    ![e].appendix_length = length,
                                    ![e].body = Join(rx[e].lines)]
                /\ wire' = [wire EXCEPT ![e] = AfterLine(@),
                                        ![Other(e)] = @ \o Ack]
                /\ rxLog' = [rxLog EXCEPT ![e] = @ \o <<"marker", "ack">>]
    /\ UNCHANGED <<closed, tx, txLog, sessionVars>>

\* receive_appendix, send_ack, assemble_form (the received form is built with
\* the default encoder, JsonAppendixEncoder)
RxReceiveAppendix(e) ==
    /\ rx[e].pc = "receive_appendix"
    /\ ~closed[e]
    /\ IF CheckLength(rx[e].appendix_length) # "none"
       THEN /\ rx' = [rx EXCEPT ![e] = RxRaise(@, CheckLength(rx[e].appendix_length))]
            /\ UNCHANGED <<wire, rxLog>>
       ELSE /\ Len(wire[e]) >= rx[e].appendix_length
            /\ LET n == rx[e].appendix_length
                   bytes == SubSeq(wire[e], 1, n)
                   form == NewForm(rx[e].title, rx[e].body, BytesVal(bytes), "json")
               IN  /\ wire' = [wire EXCEPT ![e] = SubSeq(@, n + 1, Len(@)),
                                           ![Other(e)] = @ \o Ack]
                   /\ rxLog' = [rxLog EXCEPT ![e] = @ \o <<"appendix", "ack">>]
                   /\ IF form.error # "none"
                      THEN rx' = [rx EXCEPT ![e] = [RxRaise(@, form.error) EXCEPT
                                                        !.appendix = bytes]]
                      ELSE rx' = [rx EXCEPT ![e].pc = "finished", ![e].appendix = bytes,
                                            ![e].form = form, ![e].running = FALSE,
                                            ![e].finished = TRUE]
    /\ UNCHANGED <<closed, tx, txLog, sessionVars>>

(***************************************************************************)
(* The commanding forms.  The words of a class name, of a title and of a   *)
(* body line are single symbols of the model's strings.                    *)
(***************************************************************************)
FormVal == [t |-> "form", v |-> <<>>]
JsonSerializable(x) == x.t \in {"int", "str", "list", "dict"}

UpperOf(c) ==
    CASE c = "network.protocol.commanding." -> "NETWORK.PROTOCOL.COMMANDING."
      [] c = "Command" -> "COMMAND"
      [] c = "Return" -> "RETURN"
      [] c = "Error" -> "ERROR"
      [] OTHER -> c
\* s.upper()
Upper(s) == [i \in 1..Len(s) |-> UpperOf(s[i])]

\* str(cls) of the classes of protocol/commanding.py, and cls.__name__
ClassStr(name) == <<"<class '", "network.protocol.commanding.", name, "Form'>">>
ClassName(name) == <<name, "Form">>

\* CommandungForm.procure_title
ProcureTitle(name) ==
    Upper(Replace(Replace(ClassStr(name), <<"<class '">>, <<>>), <<"Form'>">>, <<>>))

\* CommandingForm.type
TypeOf(name) == Upper(Replace(ClassName(name), <<"Form">>, <<>>))

\* ':'.join([key, value])
BodyLine(key, value) == <<key, ":">> \o value

\* A CommandForm that takes a received Form as its command and unwraps it
CommandFormOfAny(command, pos_args, kw_args) ==
    NewForm(ProcureTitle("Command"),
            Join(<<BodyLine("command", IF command.t = "str" THEN command.v ELSE <<>>),
                   BodyLine("return_mode", <<"reply">>),
                   BodyLine("error_mode", <<"reply">>)>>),
            DictVal(<<Pair(PosArgsKey, pos_args), Pair(KwArgsKey, kw_args)>>),
            "json")

\* CommandForm(command, pos_args, kw_args).form; command is a value: a string
\* or, in evaluate_commanding_form, the received Form
CommandFormOf(command, pos_args, kw_args) ==
    IF command.t # "str" THEN [NoForm EXCEPT !.error = "TypeError"]
    ELSE IF ~JsonSerializable(pos_args) \/ ~JsonSerializable(kw_args)
    THEN [NoForm EXCEPT !.error = "TypeError"]
    ELSE NewForm(ProcureTitle("Command"),
                 Join(<<BodyLine("command", command.v),
                        BodyLine("return_mode", <<"reply">>),
                        BodyLine("error_mode", <<"reply">>)>>),
                 DictVal(<<Pair(PosArgsKey, pos_args), Pair(KwArgsKey, kw_args)>>),
                 "json")

\* str(type(value))
TypeStr(x) == <<"<class '", x.t, "'>">>

\* ReturnForm(return_value).form
ReturnFormOf(value) ==
    IF ~JsonSerializable(value) THEN [NoForm EXCEPT !.error = "TypeError"]
    ELSE NewForm(ProcureTitle("Return"),
                 Join(<<BodyLine("type", TypeStr(value))>>),
                 DictVal(<<Pair(ReturnKey, value)>>),
                 "json")

\* An exception object: its class name and its message
Exc(name, message) == [name |-> name, message |-> message]
NoExc == Exc("None", <<>>)
\* The exception classes eval() finds under their names
ExceptionNames == {"ValueError", "TypeError"}

\* An error form whose message has a space for every newline
ErrorFormOfSpaced(exception) ==
    NewForm(TypeOf("Error"),
            Join(<<BodyLine("name", <<exception.name>>),
                   BodyLine("message",
                            Replace(Replace(exception.message, <<NL>>, <<SP>>),
                                    <<":">>, <<";">>))>>),
            EmptyDict,
            "json")

\* ErrorForm(exception).form for an exception object
ErrorFormOf(exception) ==
    NewForm(TypeOf("Error"),
            Join(<<BodyLine("name", <<exception.name>>),
                   BodyLine("message",
                            Replace(Replace(exception.message, <<NL>>, <<>>),
                                    <<":">>, <<";">>))>>),
            EmptyDict,
            "json")

\* The value of key in the dict of the body lines (the last line with the key)
HasSpecKey(body, key) ==
    \E i \in 1..Len(Split(body)) : SplitOn(Split(body)[i], ":")[1] = <<key>>
SpecValue(body, key) ==
    LET lines == Split(body)
        i == CHOOSE k \in 1..Len(lines) :
                /\ SplitOn(lines[k], ":")[1] = <<key>>
                /\ \A j \in (k + 1)..Len(lines) : SplitOn(lines[j], ":")[1] # <<key>>
    IN  SplitOn(lines[i], ":")[2]

\* ErrorForm(form) for a received Form: CommandingForm.__init__
\* (procure_body_dict_raw), check_type, procure_exception.  raises is the
\* exception the constructor raises, or "none"
ErrorFormFromForm(form) ==
    LET lines == Split(form.body)
    IN  IF \E i \in 1..Len(lines) : Len(SplitOn(lines[i], ":")) # 2
        THEN [raises |-> "ValueError", exception |-> NoExc]
        ELSE IF form.title # TypeOf("Error")
        THEN [raises |-> "TypeError", exception |-> NoExc]
        ELSE IF ~HasLen(form.appendix)
        THEN [raises |-> "TypeError", exception |-> NoExc]
        ELSE IF ValueLen(form.appendix) # 0
        THEN [raises |-> IF form.appendix.t = "dict" THEN "KeyError" ELSE "TypeError",
              exception |-> NoExc]
        ELSE IF ~HasSpecKey(form.body, "name") \/ ~HasSpecKey(form.body, "message")
        THEN [raises |-> "KeyError", exception |-> NoExc]
        ELSE IF Len(SpecValue(form.body, "name")) # 1
                \/ SpecValue(form.body, "name")[1] \notin ExceptionNames
        THEN [raises |-> "NameError", exception |-> NoExc]
        ELSE [raises |-> "none",
              exception |-> Exc(SpecValue(form.body, "name")[1],
                                SpecValue(form.body, "message"))]

\* evaluate_commanding_form: the wrapper it returns (kind "error" is the only
\* one it can build) or the exception it raises
EvaluateCommandingForm(form) ==
    IF form.title = <<"COMMAND">>
    THEN [raises |-> CommandFormOf(FormVal, EmptyList, EmptyDict).error, exception |-> NoExc]
    ELSE IF form.title = <<"RETURN">>
    THEN [raises |-> ReturnFormOf(FormVal).error, exception |-> NoExc]
    ELSE IF form.title = <<"ERROR">>
    THEN ErrorFormFromForm(form)
    ELSE [raises |-> "ValueError", exception |-> NoExc]

(***************************************************************************)
(* The commanding session: CommandingClient on end A, CommandingHandler on *)
(* end B, and the threads that call execute_command.  An end may instead   *)
(* be run by a peer: a handler that accepts every form and replies to it,  *)
(* or a client that sends forms of its own choice.  A peer takes the same  *)
(* steps as the class of this package wherever the two do not differ.      *)
(***************************************************************************)
NumCallers == 2
MaxPeerForms == 1
\* queue.PriorityQueue(10)
QueueSize == 10
\* the default of the parameter queue_size of CommandingClient.__init__
DefaultQueueSize == 10

Priorities == {1, 5}
\* The values random.randint(1, command_name_int) returns in the model
HashKeys == {1, 2}
ContextTypes == {<<"<class 'ContextA'>">>, <<"<class 'ContextB'>">>}
DefaultSeparation == <<"$separation$">>
Request == <<"r", "e", "q", "u", "e", "s", "t">>
CommandName == <<"time">>
\* int.from_bytes(b"time", "big")
CommandNameInt == ((116 * 256 + 105) * 256 + 109) * 256 + 101

Parties ==
    {[client |-> "CommandingClient", handler |-> "CommandingHandler"],
     [client |-> "CommandingClient", handler |-> "peer"],
     [client |-> "peer", handler |-> "CommandingHandler"]}

\* hex(n)
HexDigits == <<"0", "1", "2", "3", "4", "5", "6", "7", "8", "9",
               "a", "b", "c", "d", "e", "f">>
RECURSIVE HexStr(_)
HexStr(n) ==
    IF n < 16 THEN <<HexDigits[n + 1]>>
    ELSE HexStr(n \div 16) \o <<HexDigits[(n % 16) + 1]>>
Hex(n) == <<"0", "x">> \o HexStr(n)

\* The order of the characters of a call id, and a < b for two strings
CodeOrder == HexDigits \o <<"x">>
Ord(c) == CHOOSE i \in 1..Len(CodeOrder) : CodeOrder[i] = c
RECURSIVE StrLess(_, _)
StrLess(a, b) ==
    IF Len(b) = 0 THEN FALSE
    ELSE IF Len(a) = 0 THEN TRUE
    ELSE IF a[1] = b[1] THEN StrLess(Tail(a), Tail(b))
    ELSE Ord(a[1]) < Ord(b[1])

\* _generate_id, for the value random.randint(1, command_name_int) returned
GenerateId(random_hash_key) == Hex(CommandNameInt % random_hash_key)

\* A call tuple (priority, (call_id, command_name, pos_args, kw_args)); the
\* arguments are [] and {} in every call of the model
Call(priority, call_id, command_name) ==
    [priority |-> priority, call_id |-> call_id, command_name |-> command_name]
NoCall == Call(0, <<>>, <<>>)

\* x < y for two call tuples
CallLess(x, y) ==
    \/ x.priority < y.priority
    \/ /\ x.priority = y.priority
       /\ \/ StrLess(x.call_id, y.call_id)
          \/ x.call_id = y.call_id /\ StrLess(x.command_name, y.command_name)

\* PriorityQueue.get: the place in the queue of the least call tuple
QueueGetIndex(q) ==
    CHOOSE i \in 1..Len(q) :
        /\ \A j \in 1..Len(q) : ~CallLess(q[j], q[i])
        /\ \A j \in 1..(i - 1) : CallLess(q[i], q[j])
RemoveAt(q, i) == SubSeq(q, 1, i - 1) \o SubSeq(q, i + 1, Len(q))

\* has_response
HasResponse(call_id) == \E r \in response_dict : r.call_id = call_id
ResponseOf(call_id) == (CHOOSE r \in response_dict : r.call_id = call_id).response

\* CommandContext.execute_form for a received Form: the exception it raises
\* (no Form leaves it with a return value)
ExecuteFormRaises(form) ==
    IF form.title = <<"COMMAND">> THEN CommandFormOf(FormVal, EmptyList, EmptyDict).error
    ELSE IF form.title = <<"RETURN">> THEN ReturnFormOf(FormVal).error
    ELSE IF form.title = <<"ERROR">>
    THEN IF ErrorFormFromForm(form).raises # "none"
         THEN ErrorFormFromForm(form).raises
         ELSE ErrorFormFromForm(form).exception.name
    ELSE "TypeError"

\* The polling_interval the client is built with, and the longest idle time
\* the model tells apart
PollingInterval == 1
MaxIdleTime == PollingInterval + 1

(***************************************************************************)
(* GenericPoller.  The interval generator is a function without parameters *)
(* whose n-th call returns the n-th value of a series; the one a           *)
(* CommandingClient builds is a generator function, whose every call       *)
(* returns a new generator object.                                         *)
(***************************************************************************)
GeneratorVal == [t |-> "generator", v |-> <<>>]
IntervalFunction(series) == [kind |-> "function", series |-> series]
\* build_interval_generator: def gen(): yield polling_interval
BuildIntervalGenerator == [kind |-> "generator function", series |-> <<>>]

\* _next_interval: the value of call number n of the interval generator
NextInterval(generator, n) ==
    IF generator.kind = "function"
    THEN IntVal(generator.series[((n - 1) % Len(generator.series)) + 1])
    ELSE GeneratorVal

\* What the last call of is_interval_match was given and what it returned
\* or raised
NoResult ==
    [called |-> FALSE, idle |-> 0, update |-> FALSE, raises |-> "none",
     reached |-> FALSE, delta |-> 0]
Returned(idle, update, reached, delta) ==
    [called |-> TRUE, idle |-> idle, update |-> update, raises |-> "none",
     reached |-> reached, delta |-> delta]
Raised(idle, update, exception) ==
    [called |-> TRUE, idle |-> idle, update |-> update, raises |-> exception,
     reached |-> FALSE, delta |-> 0]

\* GenericPoller.__init__; invoked counts the calls of the interval
\* generator, interval is the attribute _interval
NewPoller(generator) ==
    [generator |-> generator, interval |-> NextInterval(generator, 1),
     keep_interval |-> TRUE, invoked |-> 1, result |-> NoResult]

\* An interval property that never takes the next value
ReadIntervalKeep(p) == [p EXCEPT !.keep_interval = TRUE]

\* The interval property: the poller after the read (the value it returns
\* is the interval of that poller); _update_interval, _assign_interval
ReadInterval(p) ==
    IF p.keep_interval THEN p
    ELSE [p EXCEPT !.interval = NextInterval(p.generator, p.invoked + 1),
                   !.invoked = @ + 1,
                   !.keep_interval = TRUE]

\* is_interval_match(interval, update): the poller after the call
IsIntervalMatch(p, idle, update) ==
    LET q == ReadInterval(p)
    IN  IF q.interval.t # "int"
        THEN [q EXCEPT !.result = Raised(idle, update, "TypeError")]
        ELSE LET difference == idle - q.interval.v[1]
             IN  IF difference < 0
                 THEN [q EXCEPT !.result = Returned(idle, update, FALSE, difference)]
                 ELSE [q EXCEPT !.keep_interval = IF update THEN FALSE ELSE @,
                                !.result = Returned(idle, update, TRUE, difference)]

\* CommandingClient.__init__
NewClient(ctx) ==
    [pc |-> "start", running |-> FALSE, ctx |-> ctx,
     polling_interval |-> IntVal(PollingInterval), queue_size |-> DefaultQueueSize,
     last_activity_timestamp |-> "None", idle_time |-> 0,
     poller |-> NewPoller(BuildIntervalGenerator),
     call |-> NoCall, form |-> NoForm, sent |-> 0]

\* CommandingHandler.__init__ and start()
\* exception is the exception run() has caught from execute_form
NewHandler(ctx) ==
    [pc |-> "validate_send", running |-> TRUE, ctx |-> ctx, exception |-> NoExc]

IdleCaller == [pc |-> "idle", call_id |-> <<>>, exception |-> "None"]

\* history: the requests the client has sent and the handler has acknowledged,
\* the call ids stored in response_dict, the number of forms the
\* handler has taken from its receiver, the titles of the replies it has
\* sent, and how validate ended on each side ("ok", "failed", or "no")
NoHistory ==
    [requests |-> 0, acks |-> 0, stored |-> <<>>, taken |-> 0,
     replies |-> <<>>, client_validated |-> "no", handler_validated |-> "no"]

\* The forms a peer client sends: a call form as the protocol describes it,
\* forms that are no call form, and an error form
CallBody ==
    Join(<<BodyLine("command", CommandName), BodyLine("return_mode", <<"reply">>),
           BodyLine("error_mode", <<"reply">>)>>)
PeerCallForm == NewForm(<<"COMMAND">>, CallBody, CallArgs, "json")
PeerBadTitleForm == NewForm(<<"HELLO">>, CallBody, CallArgs, "json")
PeerMissingKeyForm ==
    NewForm(<<"COMMAND">>, Join(<<BodyLine("command", CommandName)>>), CallArgs, "json")
PeerBadAppendixForm == NewForm(<<"COMMAND">>, CallBody, CallArgs, "pickle")
PeerErrorForm == ErrorFormOf(Exc("ValueError", <<"x">>))
PeerForms ==
    {PeerCallForm, PeerBadTitleForm, PeerMissingKeyForm, PeerBadAppendixForm, PeerErrorForm}

\* The lines a peer client asks for a transmission with
PeerRequestLines == {Request, <<"r", "e", "q">>}

\* The forms a peer handler replies with
ReplyForms == {ReturnFormOf(IntVal(1)), ErrorFormOf(Exc("ValueError", <<"x">>))}

(***************************************************************************)
(* The callers of CommandingClient: callers is the bag of the states of    *)
(* the threads that call execute_command                                   *)
(***************************************************************************)
\* The bag callers after one thread went from state c to state d
CallerStep(c, d) == (callers (-) SetToBag({c})) (+) SetToBag({d})

\* execute_command: put_call; a blocking caller then waits for the response
ExecuteCommand ==
    /\ party.client = "CommandingClient"
    /\ BagIn(IdleCaller, callers)
    /\ Len(call_queue) < QueueSize
    /\ \E priority \in Priorities, key \in HashKeys, blocking \in BOOLEAN :
          LET call_id == GenerateId(key)
          IN  /\ call_queue' = Append(call_queue, Call(priority, call_id, CommandName))
              /\ callers' = CallerStep(IdleCaller,
                                [IdleCaller EXCEPT
                                    !.pc = IF blocking THEN "waiting" ELSE "issued",
                                    !.call_id = call_id])
    /\ UNCHANGED <<connVars, formVars, party, sock, client, handler, response_dict, history>>

\* get_response by the caller of execute_command(blocking=False), once
\* has_response tells that the response is there
GetResponse(c) ==
    /\ BagIn(c, callers)
    /\ c.pc = "issued"
    /\ HasResponse(c.call_id)
    /\ response_dict' = {r \in response_dict : r.call_id # c.call_id}
    /\ callers' = CallerStep(c, [c EXCEPT !.pc = "done", !.call_id = <<>>])
    /\ UNCHANGED <<connVars, formVars, party, sock, client, handler, call_queue, history>>

\* execute_command(blocking=True) after put_call: its loop sleeps while
\* has_response is False and looks at nothing else; with a response the
\* loop ends: get_response, then command_context.execute_form(response),
\* which raises
AwaitResponse(c) ==
    /\ BagIn(c, callers)
    /\ c.pc = "waiting"
    /\ HasResponse(c.call_id)
    /\ response_dict' = {r \in response_dict : r.call_id # c.call_id}
    /\ callers' = CallerStep(c, [c EXCEPT
                                    !.pc = "raised",
                                    !.call_id = <<>>,
                                    !.exception = ExecuteFormRaises(ResponseOf(c.call_id))])
    /\ UNCHANGED <<connVars, formVars, party, sock, client, handler, call_queue, history>>

\* _polling_function with a form the transmitter accepts
PollFormAccepted == CommandFormOf(StrVal(CommandName), EmptyList, EmptyDict)

\* _polling_function: form = CommandForm("time"), the wrapper and not its
\* Form: check_form finds no Form object and raises TypeError
PollForm == [NoForm EXCEPT !.error = "TypeError"]

\* poller.poll() called by a thread of the application: _polling_function
\* builds the transmitter and, when its constructor returns, starts it and
\* a receiver on the same connection right after it
Poll ==
    /\ party.client = "CommandingClient"
    /\ BagIn(IdleCaller, callers)
    /\ LET transmitter == NewTx(PollForm, DefaultSeparation, TRUE)
       IN  IF transmitter.pc = "rejected"
           THEN /\ callers' = CallerStep(IdleCaller,
                                  [IdleCaller EXCEPT !.pc = "raised",
                                                     !.exception = transmitter.exception])
                /\ UNCHANGED formVars
           ELSE /\ callers' = CallerStep(IdleCaller, [IdleCaller EXCEPT !.pc = "polling"])
                /\ tx' = [tx EXCEPT !["A"] = transmitter]
                /\ rx' = [rx EXCEPT !["A"] = NewRx(DefaultSeparation)]
                /\ txLog' = [txLog EXCEPT !["A"] = <<>>]
                /\ rxLog' = [rxLog EXCEPT !["A"] = <<>>]
    /\ UNCHANGED <<connVars, party, sock, client, handler, call_queue, response_dict, history>>

(***************************************************************************)
(* CommandingClient.run                                                    *)
(***************************************************************************)
\* The step of the loop body of run() that follows step pc, for a worker
\* that does not wait for the response
ClientNextStepNoReceive(pc) ==
    CASE pc = "wait_ack" -> "sending"
      [] pc = "sending" -> "loop"
      [] pc = "receiving" -> "loop"

\* The step of the loop body of run() that follows step pc
ClientNextStep(pc) ==
    CASE pc = "wait_ack" -> "sending"
      [] pc = "sending" -> "receiving"
      [] pc = "receiving" -> "loop"

\* start(): the first statement of run()
ClientStart ==
    /\ client.pc = "start"
    /\ client' = [client EXCEPT !.pc = "validate", !.running = TRUE]
    /\ UNCHANGED <<connVars, formVars, party, sock, handler, call_queue, response_dict,
                   callers, history>>

\* self.command_context_class of the one end against the line of the other
ContextTypesMatchAlways(own, line) == TRUE
ContextTypesMatch(own, line) == own = line

\* validate: receive_line, send_command_context_type, compare.  The
\* ConnectionAbortedError ends run() in its except clause
ClientValidate ==
    /\ client.pc = "validate"
    /\ ~closed["A"]
    /\ HasNewline(wire["A"])
    /\ wire' = [wire EXCEPT !["A"] = AfterLine(@), !["B"] = @ \o client.ctx \o <<NL>>]
    /\ client' = [client EXCEPT
                    !.pc = IF ContextTypesMatch(client.ctx, LineOf(wire["A"]))
                           THEN "loop" ELSE "exited"]
    /\ history' = [history EXCEPT
                     !.client_validated =
                         IF ContextTypesMatch(client.ctx, LineOf(wire["A"]))
                         THEN "ok" ELSE "failed"]
    /\ UNCHANGED <<closed, formVars, party, sock, handler, call_queue, response_dict, callers>>

\* run(), the queue is empty: the idle time is computed from the time stamp
\* of the last activity, which is None until the first response is stored;
\* the TypeError ends run() in its except clause.  Nothing else is done in
\* this branch (the statements that poll are inside a string literal).  One
\* unit of time passes between two passes of the loop
ClientIdle ==
    /\ party.client = "CommandingClient"
    /\ client.pc = "loop"
    /\ client.running
    /\ Len(call_queue) = 0
    /\ IF client.last_activity_timestamp = "None"
       THEN client' = [client EXCEPT !.pc = "exited"]
       ELSE client' = [client EXCEPT
                          !.idle_time = IF @ < MaxIdleTime THEN @ + 1 ELSE @]
    /\ UNCHANGED <<connVars, formVars, party, sock, handler, call_queue, response_dict,
                   callers, history>>

\* run(), the queue is not empty: call_queue.get(), send_request up to its
\* wait
ClientDequeue ==
    /\ party.client = "CommandingClient"
    /\ client.pc = "loop"
    /\ client.running
    /\ Len(call_queue) > 0
    /\ ~closed["A"]
    /\ client' = [client EXCEPT !.pc = "wait_ack",
                                !.call = call_queue[QueueGetIndex(call_queue)]]
    /\ call_queue' = RemoveAt(call_queue, QueueGetIndex(call_queue))
    /\ wire' = Send("A", Request \o <<NL>>)
    /\ history' = [history EXCEPT !.requests = @ + 1]
    /\ UNCHANGED <<closed, formVars, party, sock, handler, response_dict, callers>>

\* A peer client asks for the next transmission
PeerRequest ==
    /\ party.client = "peer"
    /\ client.pc = "loop"
    /\ client.sent < MaxPeerForms
    /\ \E form \in PeerForms : client' = [client EXCEPT !.pc = "wait_ack", !.form = form]
    /\ \E line \in PeerRequestLines : wire' = Send("A", line \o <<NL>>)
    /\ history' = [history EXCEPT !.requests = @ + 1]
    /\ UNCHANGED <<closed, formVars, party, sock, handler, call_queue, response_dict, callers>>

\* The form the client sends for its call: _send_command builds a CommandForm
ClientForm ==
    IF party.client = "CommandingClient"
    THEN CommandFormOf(StrVal(client.call.command_name), EmptyList, EmptyDict)
    ELSE client.form

\* send_request after its wait, then _send_command up to the start of the
\* transmitter in _send_form
ClientSendCommand ==
    /\ client.pc = "wait_ack"
    /\ ~closed["A"]
    /\ HasNewline(wire["A"])
    /\ wire' = [wire EXCEPT !["A"] = AfterLine(@)]
    /\ LET transmitter == NewTx(ClientForm, DefaultSeparation, TRUE)
       IN  IF LineOf(wire["A"]) # Ack \/ transmitter.pc = "rejected"
           THEN /\ client' = [client EXCEPT !.pc = "exited"]
                /\ UNCHANGED <<tx, txLog>>
           ELSE /\ client' = [client EXCEPT !.pc = ClientNextStep("wait_ack")]
                /\ tx' = [tx EXCEPT !["A"] = transmitter]
                /\ txLog' = [txLog EXCEPT !["A"] = <<>>]
    /\ UNCHANGED <<closed, rx, rxLog, party, sock, handler, call_queue, response_dict,
                   callers, history>>

\* _send_form returns once the transmitter has finished; the receiver for
\* the response is started
ClientSent ==
    /\ client.pc = "sending"
    /\ tx["A"].finished
    /\ client' = [client EXCEPT !.pc = ClientNextStep("sending")]
    /\ tx' = [tx EXCEPT !["A"] = IdleTx]
    /\ IF ClientNextStep("sending") = "receiving"
       THEN /\ rx' = [rx EXCEPT !["A"] = NewRx(DefaultSeparation)]
            /\ rxLog' = [rxLog EXCEPT !["A"] = <<>>]
       ELSE UNCHANGED <<rx, rxLog>>
    /\ UNCHANGED <<connVars, txLog, party, sock, handler, call_queue, response_dict,
                   callers, history>>

\* receive_form returns the form or raises the exception of the receiver;
\* the response is stored under the call id and the time stamp of the last
\* activity is set
ClientReceiveForm ==
    /\ client.pc = "receiving"
    /\ rx["A"].pc \in {"finished", "raised"}
    /\ rx' = [rx EXCEPT !["A"] = IdleRx]
    /\ IF rx["A"].pc = "raised"
       THEN /\ client' = [client EXCEPT !.pc = "exited"]
            /\ UNCHANGED <<response_dict, history>>
       ELSE IF party.client = "peer"
       THEN /\ client' = [client EXCEPT !.pc = ClientNextStep("receiving"),
                                        !.sent = @ + 1]
            /\ UNCHANGED <<response_dict, history>>
       ELSE /\ response_dict' =
                 {r \in response_dict : r.call_id # client.call.call_id}
                 \cup {[call_id |-> client.call.call_id, response |-> rx["A"].form]}
            /\ history' = [history EXCEPT !.stored = Append(@, client.call.call_id)]
            /\ client' = [client EXCEPT !.pc = ClientNextStep("receiving"),
                                        !.last_activity_timestamp = "time",
                                        !.idle_time = 0]
    /\ UNCHANGED <<connVars, tx, txLog, rxLog, party, sock, handler, call_queue, callers>>


(***************************************************************************)
(* CommandingHandler.run                                                   *)
(***************************************************************************)
\* validate: send_command_context_type
HandlerSendContextType ==
    /\ handler.pc = "validate_send"
    /\ ~closed["B"]
    /\ wire' = Send("B", handler.ctx \o <<NL>>)
    /\ handler' = [handler EXCEPT !.pc = "validate_receive"]
    /\ UNCHANGED <<closed, formVars, party, sock, client, call_queue, response_dict,
                   callers, history>>

\* validate: receive_line, compare.  run() returns on ConnectionAbortedError
HandlerValidate ==
    /\ handler.pc = "validate_receive"
    /\ ~closed["B"]
    /\ HasNewline(wire["B"])
    /\ wire' = [wire EXCEPT !["B"] = AfterLine(@)]
    /\ handler' = [handler EXCEPT
                      !.pc = IF ContextTypesMatch(handler.ctx, LineOf(wire["B"]))
                             THEN "loop" ELSE "exited"]
    /\ history' = [history EXCEPT
                     !.handler_validated =
                         IF ContextTypesMatch(handler.ctx, LineOf(wire["B"]))
                         THEN "ok" ELSE "failed"]
    /\ UNCHANGED <<closed, formVars, party, sock, client, call_queue, response_dict, callers>>

\* while self.running
HandlerLoop ==
    /\ handler.pc = "loop"
    /\ handler' = [handler EXCEPT !.pc = IF handler.running THEN "wait_request"
                                         ELSE "exited"]
    /\ UNCHANGED <<connVars, formVars, party, sock, client, call_queue, response_dict,
                   callers, history>>

\* wait_request for a handler that takes any line for a request
IsRequestAnyLine(line_string) == TRUE

\* wait_request: line_string != "request"
IsRequest(line_string) == line_string = Request

\* wait_request: wait_line, send_ack; then the receiver is started.  The
\* ValueError is not caught by run(): the thread ends with it ("crashed")
HandlerWaitRequest ==
    /\ handler.pc = "wait_request"
    /\ ~closed["B"]
    /\ HasNewline(wire["B"])
    /\ IF ~IsRequest(LineOf(wire["B"]))
       THEN /\ wire' = [wire EXCEPT !["B"] = AfterLine(@)]
            /\ handler' = [handler EXCEPT !.pc = "crashed"]
            /\ UNCHANGED <<rx, rxLog, history>>
       ELSE /\ wire' = [wire EXCEPT !["B"] = AfterLine(@), !["A"] = @ \o Ack \o <<NL>>]
            /\ handler' = [handler EXCEPT !.pc = "receiving"]
            /\ rx' = [rx EXCEPT !["B"] = NewRx(DefaultSeparation)]
            /\ rxLog' = [rxLog EXCEPT !["B"] = <<>>]
            /\ history' = [history EXCEPT !.acks = @ + 1]
    /\ UNCHANGED <<closed, tx, txLog, party, sock, client, call_queue, response_dict, callers>>

\* A peer handler answers a request with a line that is not the ack, and ends
PeerRefuse ==
    /\ party.handler = "peer"
    /\ handler.pc = "wait_request"
    /\ HasNewline(wire["B"])
    /\ wire' = [wire EXCEPT !["B"] = AfterLine(@),
                            !["A"] = @ \o <<"n", "a", "k">> \o <<NL>>]
    /\ handler' = [handler EXCEPT !.pc = "exited"]
    /\ UNCHANGED <<closed, formVars, party, sock, client, call_queue, response_dict,
                   callers, history>>

\* How run() ends on an exception of the given class
HandlerEnds(exception) == IF exception = "ConnectionAbortedError" THEN "exited" ELSE "crashed"

\* receive_form, evaluate_commanding_form, execute_form in its try block,
\* ErrorForm(exception), _send_form up to the start of the transmitter.  The
\* only wrapper evaluate_commanding_form returns is an ErrorForm, and
\* executing it raises its exception
HandlerDispatch ==
    /\ party.handler = "CommandingHandler"
    /\ handler.pc = "receiving"
    /\ rx["B"].pc \in {"finished", "raised"}
    /\ rx' = [rx EXCEPT !["B"] = IdleRx]
    /\ LET commanding_form == EvaluateCommandingForm(rx["B"].form)
           transmitter == NewTx(ErrorFormOf(commanding_form.exception),
                                DefaultSeparation, TRUE)
       IN  IF rx["B"].pc = "raised"
           THEN /\ handler' = [handler EXCEPT !.pc = HandlerEnds(rx["B"].exception)]
                /\ UNCHANGED <<tx, txLog>>
           ELSE IF commanding_form.raises # "none"
           THEN /\ handler' = [handler EXCEPT !.pc = HandlerEnds(commanding_form.raises)]
                /\ UNCHANGED <<tx, txLog>>
           ELSE IF transmitter.pc = "rejected"
           THEN /\ handler' = [handler EXCEPT !.pc = HandlerEnds(transmitter.exception)]
                /\ UNCHANGED <<tx, txLog>>
           ELSE /\ handler' = [handler EXCEPT !.pc = "sending",
                                               !.exception = commanding_form.exception]
                /\ tx' = [tx EXCEPT !["B"] = transmitter]
                /\ txLog' = [txLog EXCEPT !["B"] = <<>>]
    /\ history' = [history EXCEPT
                     !.taken = IF rx["B"].pc = "finished" THEN @ + 1 ELSE @]
    /\ UNCHANGED <<connVars, rxLog, party, sock, client, call_queue, response_dict, callers>>

\* A peer handler replies to the form it has received
PeerReply ==
    /\ party.handler = "peer"
    /\ handler.pc = "receiving"
    /\ rx["B"].pc = "finished"
    /\ rx' = [rx EXCEPT !["B"] = IdleRx]
    /\ \E form \in ReplyForms : tx' = [tx EXCEPT !["B"] = NewTx(form, DefaultSeparation, TRUE)]
    /\ txLog' = [txLog EXCEPT !["B"] = <<>>]
    /\ handler' = [handler EXCEPT !.pc = "sending"]
    /\ history' = [history EXCEPT !.taken = @ + 1]
    /\ UNCHANGED <<connVars, rxLog, party, sock, client, call_queue, response_dict, callers>>

\* _send_form returns once the transmitter has finished
HandlerSent ==
    /\ handler.pc = "sending"
    /\ tx["B"].finished
    /\ tx' = [tx EXCEPT !["B"] = IdleTx]
    /\ handler' = [handler EXCEPT !.pc = "loop"]
    /\ history' = [history EXCEPT !.replies = Append(@, tx["B"].form.title)]
    /\ UNCHANGED <<connVars, rx, txLog, rxLog, party, sock, client, call_queue,
                   response_dict, callers>>

\* stop()
HandlerStop ==
    /\ party.handler = "CommandingHandler"
    /\ ~closed["B"]
    /\ handler' = [handler EXCEPT !.running = FALSE]
    /\ closed' = [closed EXCEPT !["B"] = TRUE]
    /\ UNCHANGED <<wire, formVars, party, sock, client, call_queue, response_dict,
                   callers, history>>

(***************************************************************************)
(* A closed socket.  A call on a socket the own end has closed raises      *)
(* OSError, whose class depends on the platform; a receive on a socket     *)
(* the other end has closed returns no bytes once the bytes sent before    *)
(* are read, and the receive methods of SocketConnection then raise.       *)
(***************************************************************************)
SocketErrors == {"OSError", "ConnectionAbortedError"}

HandlerSocketError ==
    /\ closed["B"]
    /\ handler.pc \in {"validate_send", "validate_receive", "wait_request"}
    /\ \E exception \in SocketErrors :
          handler' = [handler EXCEPT !.pc = HandlerEnds(exception)]
    /\ UNCHANGED <<connVars, formVars, party, sock, client, call_queue, response_dict,
                   callers, history>>

TxSocketError(e) ==
    /\ closed[e]
    /\ tx[e].pc \in TxSendSteps \cup TxAckSteps
    /\ \E exception \in SocketErrors :
          tx' = [tx EXCEPT ![e].pc = "raised", ![e].exception = exception]
    /\ UNCHANGED <<connVars, rx, txLog, rxLog, sessionVars>>

RxSocketError(e) ==
    /\ closed[e]
    /\ rx[e].pc \in RxReadSteps
    /\ \E exception \in SocketErrors :
          rx' = [rx EXCEPT ![e] = RxRaise(@, exception)]
    /\ UNCHANGED <<connVars, tx, txLog, rxLog, sessionVars>>

\* wait_string_until_character and receive_line at the end of the stream
ClientEndOfStream ==
    /\ closed["B"]
    /\ ~closed["A"]
    /\ client.pc \in {"validate", "wait_ack"}
    /\ ~HasNewline(wire["A"])
    /\ client' = [client EXCEPT !.pc = "exited"]
    /\ wire' = [wire EXCEPT !["A"] = <<>>]
    /\ UNCHANGED <<closed, formVars, party, sock, handler, call_queue, response_dict,
                   callers, history>>

\* receive_length_bytes at the end of the stream
TxEndOfStream(e) ==
    /\ closed[Other(e)]
    /\ ~closed[e]
    /\ tx[e].pc \in TxAckSteps
    /\ Len(wire[e]) < 3
    /\ tx' = [tx EXCEPT ![e].pc = "raised", ![e].exception = "TypeError"]
    /\ wire' = [wire EXCEPT ![e] = <<>>]
    /\ UNCHANGED <<closed, rx, txLog, rxLog, sessionVars>>

\* receive_line and receive_length_bytes at the end of the stream
RxEndOfStream(e) ==
    /\ closed[Other(e)]
    /\ ~closed[e]
    /\ \/ rx[e].pc \in {"receive_title", "receive_body"} /\ ~HasNewline(wire[e])
       \/ /\ rx[e].pc = "receive_appendix"
          /\ CheckLength(rx[e].appendix_length) = "none"
          /\ Len(wire[e]) < rx[e].appendix_length
    /\ rx' = [rx EXCEPT ![e] = RxRaise(@, "TypeError")]
    /\ wire' = [wire EXCEPT ![e] = <<>>]
    /\ UNCHANGED <<closed, tx, txLog, rxLog, sessionVars>>

(***************************************************************************)
(* One form transmission: a transmitter on end A and a receiver on end B   *)
(* of a fresh connection, as in TestFormTransmission.                      *)
(***************************************************************************)
MaxBodyLines == 2

Titles == {<<"T">>, <<SP>>, <<TAB>>, <<>>}
BodyLines == {<<>>, <<"a">>, <<"$", "5">>, <<"$">>, <<SP, "$", "5">>}
Separations == {<<"$">>, <<SP, "$">>}
AppendixInputs == AppendixValues \cup {BytesVal(<<>>)}

RECURSIVE SeqsUpTo(_, _)
SeqsUpTo(S, n) ==
    IF n = 0 THEN {<<>>}
    ELSE SeqsUpTo(S, n - 1) \cup
         {Append(s, x) : s \in {q \in SeqsUpTo(S, n - 1) : Len(q) = n - 1}, x \in S}
Bodies == {Join(ls) : ls \in SeqsUpTo(BodyLines, MaxBodyLines)}

EmptyWire == [e \in Ends |-> <<>>]
NoLogs == [e \in Ends |-> <<>>]

FormInit ==
    /\ wire = EmptyWire
    /\ closed = [e \in Ends |-> FALSE]
    /\ \E title \in Titles, body \in Bodies, app \in AppendixInputs,
          enc \in Encoders, sep \in Separations, adjust \in BOOLEAN :
            /\ tx = [e \in Ends |-> IF e = "A"
                                    THEN NewTx(NewForm(title, body, app, enc), sep, adjust)
                                    ELSE IdleTx]
            /\ rx = [e \in Ends |-> IF e = "B" THEN NewRx(sep) ELSE IdleRx]
    /\ txLog = NoLogs
    /\ rxLog = NoLogs
    /\ party = [client |-> "none", handler |-> "none"]
    /\ sock = NoSocket
    /\ client = [NewClient(<<>>) EXCEPT !.pc = "none"]
    /\ handler = [NewHandler(<<>>) EXCEPT !.pc = "none"]
    /\ call_queue = <<>>
    /\ response_dict = {}
    /\ callers = EmptyBag
    /\ history = NoHistory

FormThreads ==
    \E e \in Ends :
        \/ TxSendTitle(e)
        \/ TxSendBodyLine(e)
        \/ TxSendSeparator(e)
        \/ TxSendAppendix(e)
        \/ TxWaitAck(e)
        \/ RxReceiveTitle(e)
        \/ RxReceiveBody(e)
        \/ RxReceiveAppendix(e)

FormNext == FormThreads

FormSpec == FormInit /\ [][FormNext]_vars

(***************************************************************************)
(* The commanding session                                                  *)
(***************************************************************************)
Init ==
    /\ wire = EmptyWire
    /\ closed = [e \in Ends |-> FALSE]
    /\ tx = [e \in Ends |-> IdleTx]
    /\ rx = [e \in Ends |-> IdleRx]
    /\ txLog = NoLogs
    /\ rxLog = NoLogs
    /\ party \in Parties
    /\ sock = NoSocket
    /\ client = NewClient(<<"<class 'ContextA'>">>)
    /\ \E b \in ContextTypes : handler = NewHandler(b)
    /\ call_queue = <<>>
    /\ response_dict = {}
    /\ callers = [c \in {IdleCaller} |-> NumCallers]
    /\ history = NoHistory

Next ==
    \/ ExecuteCommand
    \/ \E c \in BagToSet(callers) : GetResponse(c)
    \/ \E c \in BagToSet(callers) : AwaitResponse(c)
    \/ Poll
    \/ ClientStart
    \/ ClientValidate
    \/ ClientIdle
    \/ ClientDequeue
    \/ PeerRequest
    \/ ClientSendCommand
    \/ ClientSent
    \/ ClientReceiveForm
    \/ HandlerSendContextType
    \/ HandlerValidate
    \/ HandlerLoop
    \/ HandlerWaitRequest
    \/ HandlerDispatch
    \/ PeerRefuse
    \/ PeerReply
    \/ HandlerSent
    \/ HandlerStop
    \/ HandlerSocketError
    \/ ClientEndOfStream
    \/ \E e \in Ends : TxSocketError(e)
    \/ \E e \in Ends : RxSocketError(e)
    \/ \E e \in Ends : TxEndOfStream(e)
    \/ \E e \in Ends : RxEndOfStream(e)
    \/ FormThreads

Spec == Init /\ [][Next]_vars

\* The session of a client built with arguments of the caller's choice:
\* polling_interval None (the default) or a number, queue_size the default
\* or a smaller number
NoneVal == [t |-> "None", v |-> <<>>]
PollingIntervals == {NoneVal, IntVal(PollingInterval)}
QueueSizes == {1, DefaultQueueSize}

ConfigInit ==
    /\ wire = EmptyWire
    /\ closed = [e \in Ends |-> FALSE]
    /\ tx = [e \in Ends |-> IdleTx]
    /\ rx = [e \in Ends |-> IdleRx]
    /\ txLog = NoLogs
    /\ rxLog = NoLogs
    /\ party \in Parties
    /\ sock = NoSocket
    /\ \E polling_interval \in PollingIntervals, queue_size \in QueueSizes :
          client = [NewClient(<<"<class 'ContextA'>">>) EXCEPT
                        !.polling_interval = polling_interval,
                        !.queue_size = queue_size]
    /\ \E b \in ContextTypes : handler = NewHandler(b)
    /\ call_queue = <<>>
    /\ response_dict = {}
    /\ callers = [c \in {IdleCaller} |-> NumCallers]
    /\ history = NoHistory

ConfigSpec == ConfigInit /\ [][Next]_vars

(***************************************************************************)
(* A GenericPoller and the calls an application makes on it: the poller    *)
(* of a CommandingClient, or a poller built with an interval function.     *)
(***************************************************************************)
MaxGeneratorCalls == 4
MaxIdle == 4
IdleTimes == 0..MaxIdle
IntervalSeries == {<<2, 1, 3>>, <<1, 1, 1>>, <<3, 4, 2>>}
IntervalGenerators ==
    {IntervalFunction(series) : series \in IntervalSeries} \cup {BuildIntervalGenerator}

PollerInit ==
    /\ wire = EmptyWire
    /\ closed = [e \in Ends |-> FALSE]
    /\ tx = [e \in Ends |-> IdleTx]
    /\ rx = [e \in Ends |-> IdleRx]
    /\ txLog = NoLogs
    /\ rxLog = NoLogs
    /\ party = [client |-> "none", handler |-> "none"]
    /\ sock = NoSocket
    /\ \E generator \in IntervalGenerators :
          client = [NewClient(<<>>) EXCEPT !.pc = "none", !.poller = NewPoller(generator)]
    /\ handler = [NewHandler(<<>>) EXCEPT !.pc = "none"]
    /\ call_queue = <<>>
    /\ response_dict = {}
    /\ callers = EmptyBag
    /\ history = NoHistory

\* The generator is called at most MaxGeneratorCalls times
MayRead(p) == p.keep_interval \/ p.invoked < MaxGeneratorCalls

\* poller.is_interval_match(idle, update)
PollerMatch ==
    /\ MayRead(client.poller)
    /\ \E idle \in IdleTimes, update \in BOOLEAN :
          client' = [client EXCEPT !.poller = IsIntervalMatch(@, idle, update)]
    /\ UNCHANGED <<connVars, formVars, party, sock, handler, call_queue, response_dict,
                   callers, history>>

\* poller.interval
PollerInterval ==
    /\ MayRead(client.poller)
    /\ client' = [client EXCEPT !.poller = [ReadInterval(@) EXCEPT !.result = NoResult]]
    /\ UNCHANGED <<connVars, formVars, party, sock, handler, call_queue, response_dict,
                   callers, history>>

PollerNext == PollerMatch \/ PollerInterval

PollerSpec == PollerInit /\ [][PollerNext]_vars

(***************************************************************************)
(* Properties of one form transmission (FormSpec)                          *)
(***************************************************************************)
RECURSIVE Repeat(_, _)
Repeat(s, n) == IF n = 0 THEN <<>> ELSE s \o Repeat(s, n - 1)

\* The body lines the transmitter of end A sends
SentLines == Len(Split(tx["A"].form.body))

\* C1: every valid form whose body has no line that starts with the
\* separation is received with the title, the body and the appendix it was
\* sent with: once the receiver has ended, it has finished and its form
\* equals the form given to the transmitter.  (The forms looked at have an
\* encoded appendix of at least one byte.)
C1_RoundTrip ==
    ( /\ tx["A"].pc # "rejected"
      /\ ~BodyCollides(tx["A"].orig.body, tx["A"].separation)
      /\ Len(tx["A"].orig.appendix_encoded) > 0
      /\ rx["B"].pc \in {"finished", "raised"} )
    => /\ rx["B"].pc = "finished"
       /\ rx["B"].form.title = tx["A"].orig.title
       /\ rx["B"].form.body = tx["A"].orig.body
       /\ rx["B"].form.appendix = tx["A"].orig.appendix

\* One acknowledgement after the title, after every body line, after the
\* separation line and after the appendix
CadenceWithMarkerAck(n) ==
    <<"title", "ack">> \o Repeat(<<"line", "ack">>, n)
        \o <<"marker", "ack", "appendix", "ack">>

\* One acknowledgement after the title, after every body line and after the
\* appendix, none between the separation line and the appendix
CadenceWithoutMarkerAck(n) ==
    <<"title", "ack">> \o Repeat(<<"line", "ack">>, n)
        \o <<"marker", "appendix", "ack">>

FifoIndex(q) ==
    CHOOSE i \in 1..Len(q) :
        /\ \A j \in 1..Len(q) : q[j].priority >= q[i].priority
        /\ \A j \in 1..(i - 1) : q[j].priority # q[i].priority

\* C3: the worker takes the call of the lowest priority value, and among
\* calls of equal priority the one that was put first.
C3_PriorityThenFifo ==
    [][ ( /\ party.client = "CommandingClient"
          /\ client.pc = "loop"
          /\ client'.pc = "wait_ack" )
        => client'.call = call_queue[FifoIndex(call_queue)] ]_vars

\* The number of times call_id has been stored in response_dict
Stored(call_id) ==
    Cardinality({i \in 1..Len(history.stored) : history.stored[i] = call_id})

\* C4: for every call id execute_command(blocking=False) has returned, a
\* response is stored: once the worker has ended, after a handshake that
\* succeeded on a connection that nobody closed, no such call is left
\* without its response.
C4_EveryCallAnswered ==
    ( /\ party.client = "CommandingClient"
      /\ history.client_validated = "ok"
      /\ ~closed["B"]
      /\ client.pc = "exited" )
    => \A c \in BagToSet(callers) :
          c.pc = "issued" => Stored(c.call_id) >= 1

\* C5: a caller blocked in execute_command(blocking=True) does not wait
\* forever once the worker has ended: whenever the worker has ended, every
\* caller still in its wait is able to leave it.
C5_BlockedCallerLeaves ==
    \A c \in BagToSet(callers) :
        (client.pc = "exited" /\ c.pc = "waiting") => ENABLED AwaitResponse(c)

HandshakeSteps ==
    ClientStart \/ ClientValidate \/ HandlerSendContextType \/ HandlerValidate

\* C6: the handler sends its context type and then reads, the client reads
\* and then sends; while nobody has closed the connection the handshake is
\* never stuck; validate succeeds on a side exactly if the two context types
\* are the same; a side whose validate failed has ended; if the context
\* types differ no request is ever sent or acknowledged.
C6_Handshake ==
    /\ handler.pc = "validate_send" =>
          wire["A"] = <<>> /\ history.client_validated = "no"
    /\ history.client_validated = "no" =>
          wire["B"] = <<>> /\ history.handler_validated = "no"
    /\ ( /\ ~closed["B"]
         /\ \/ history.client_validated = "no"
            \/ history.handler_validated = "no" )
       => ENABLED HandshakeSteps
    /\ history.client_validated # "no" =>
          (history.client_validated = "ok" <=> client.ctx = handler.ctx)
    /\ history.handler_validated # "no" =>
          (history.handler_validated = "ok" <=> client.ctx = handler.ctx)
    /\ history.client_validated = "failed" => client.pc = "exited"
    /\ history.handler_validated = "failed" => handler.pc = "exited"
    /\ client.ctx # handler.ctx => history.requests = 0 /\ history.acks = 0

\* Both sides have ended validate, with different context types
C6_Witness ==
    /\ client.ctx # handler.ctx
    /\ history.client_validated = "failed"
    /\ history.handler_validated = "failed"
    /\ client.pc = "exited"
    /\ handler.pc = "exited"

\* C7: after a handshake that failed on both sides the stream is closed on
\* both sides.
C7_ClosedAfterFailedHandshake ==
    ( /\ history.client_validated = "failed"
      /\ history.handler_validated = "failed" )
    => closed["A"] /\ closed["B"]

\* C8: at most one call is in flight: the requests sent are at most one
\* ahead of the responses stored, and the worker is back at the head of its
\* loop, where it sends the next request, only when every response is stored.
C8_OneCallInFlight ==
    party.client = "CommandingClient" =>
        /\ history.requests <= Len(history.stored) + 1
        /\ client.pc = "loop" => history.requests = Len(history.stored)

\* A second request is on its way after the first response was stored
C8_Witness ==
    /\ party.client = "CommandingClient"
    /\ history.requests = 2
    /\ Len(history.stored) = 1
    /\ client.pc = "wait_ack"

\* The handler is done with the form of the first request it acknowledged
HandlerDoneWithForm ==
    /\ party.client = "peer"
    /\ ~closed["B"]
    /\ history.acks = 1
    /\ handler.pc \notin {"receiving", "sending"}

\* C9: for a call form it has received the handler sends exactly one reply
\* form, and it does not end.
C9_OneReplyPerCall ==
    (HandlerDoneWithForm /\ client.form = PeerCallForm)
    => /\ handler.pc \in {"loop", "wait_request"}
       /\ Len(history.replies) = 1

\* C10: to a form it cannot parse (a title that is not COMMAND, a missing
\* body key, a malformed appendix) the handler replies with an error form,
\* and it keeps the session open.
C10_ErrorReplyToUnparseable ==
    ( /\ HandlerDoneWithForm
      /\ client.form \in {PeerBadTitleForm, PeerMissingKeyForm, PeerBadAppendixForm} )
    => /\ handler.pc \in {"loop", "wait_request"}
       /\ history.replies = <<TypeOf("Error")>>

\* s is what is left of t after bytes were read from its front
IsSuffix(s, t) == Len(s) <= Len(t) /\ s = SubSeq(t, Len(t) - Len(s) + 1, Len(t))

\* C11: the handler sends the ack line only after it has read a line that is
\* exactly "request", and then starts its receiver; on any other line it ends
\* with the ValueError, sends nothing and starts no receiver.  The client
\* starts the transmitter of its form only after it has read a line that is
\* exactly "ack"; on any other line it sends nothing and ends.
C11_RequestThenAck ==
    [][ /\ (party.handler = "CommandingHandler" /\ handler.pc = "wait_request") =>
            IF ~closed["B"] /\ HasNewline(wire["B"]) /\ LineOf(wire["B"]) = Request
            THEN handler'.pc # handler.pc =>
                    /\ wire'["A"] = wire["A"] \o Ack \o <<NL>>
                    /\ handler'.pc = "receiving"
                    /\ rx'["B"].pc = "receive_title"
            ELSE /\ IsSuffix(wire'["A"], wire["A"])
                 /\ rx'["B"] = rx["B"]
                 /\ handler'.pc \in {"wait_request", "crashed", "exited"}
                 /\ (~closed["B"] /\ handler'.pc # handler.pc) => handler'.pc = "crashed"
        /\ client.pc = "wait_ack" =>
            IF ~closed["A"] /\ HasNewline(wire["A"]) /\ LineOf(wire["A"]) = Ack
            THEN client'.pc # client.pc => tx'["A"].pc \in {"send_title", "idle"}
            ELSE /\ IsSuffix(wire'["B"], wire["B"])
                 /\ tx'["A"] = tx["A"]
                 /\ client'.pc \in {"wait_ack", "exited"} ]_vars

\* The handler has ended on a line that was not "request", without an ack
C11_Witness ==
    /\ party.handler = "CommandingHandler"
    /\ history.handler_validated = "ok"
    /\ ~closed["B"]
    /\ handler.pc = "crashed"
    /\ history.requests = 1
    /\ history.acks = 0
    /\ wire["A"] = <<>>
    /\ rx["B"].pc = "idle"

\* C12: when the transmitter of a form has ended with an exception, the
\* worker that waits in _send_form for it does not keep waiting: it is able
\* to leave _send_form.
C12_SendFailureSurfaces ==
    /\ (client.pc = "sending" /\ tx["A"].pc = "raised") => ENABLED ClientSent
    /\ (handler.pc = "sending" /\ tx["B"].pc = "raised") => ENABLED HandlerSent

\* C13: with polling enabled at interval T and the call queue empty, the
\* worker emits a request when the idle time reaches T: it is never back at
\* the head of its loop with an idle time above T.
C13_IdleKeepalive ==
    ( /\ party.client = "CommandingClient"
      /\ client.polling_interval.t = "int"
      /\ client.pc = "loop"
      /\ client.running
      /\ Len(call_queue) = 0 )
    => client.idle_time <= client.polling_interval.v[1]

\* C14: the body a transmitter sends has the lines of the body it was given,
\* in their order, each line that started with the separation with one space
\* in front of it and every other line as it was; the receiver takes every
\* one of these lines for a body line and the line after the last of them
\* for the separation line, so the body it builds is the body that was sent.
C14_BodyAdjustment ==
    tx["A"].pc # "rejected" =>
        LET given == Split(tx["A"].orig.body)
            sent == Split(tx["A"].form.body)
            separation == tx["A"].separation
        IN  /\ Len(sent) = Len(given)
            /\ \A i \in 1..Len(given) :
                  sent[i] = IF StartsWith(given[i], separation)
                            THEN <<SP>> \o given[i] ELSE given[i]
            /\ IsPrefix(rx["B"].lines, sent)
            /\ rx["B"].pc \in {"receive_appendix", "finished"} =>
                  rx["B"].lines = sent /\ rx["B"].body = tx["A"].form.body
            /\ rx["B"].finished => rx["B"].form.body = tx["A"].form.body

\* A body with a line that starts with the separation has been received
C14_Witness ==
    /\ BodyCollides(tx["A"].orig.body, tx["A"].separation)
    /\ Len(Split(tx["A"].orig.body)) = 2
    /\ tx["A"].finished
    /\ rx["B"].finished
    /\ rx["B"].form.body # tx["A"].orig.body

\* The form and the separation given to the transmitter of end A pass
\* check_form and check_separation
TxArgumentsValid ==
    /\ tx["A"].orig.error = "none"
    /\ ~FormValidRaises(tx["A"].orig)
    /\ FormValid(tx["A"].orig)
    /\ CheckSeparation(tx["A"].separation) = "none"

\* Some line of the body given to the transmitter of end A starts with the
\* separation
GivenBodyCollides ==
    \E i \in 1..Len(Split(tx["A"].orig.body)) :
        StartsWith(Split(tx["A"].orig.body)[i], tx["A"].separation)

\* C15: with adjust=False the constructor of the transmitter raises the
\* ValueError for a body with a line that starts with the separation, and
\* nothing is ever written to the connection; for a body without such a line
\* it succeeds, and the body it sends is the body it was given.
C15_CollisionRejected ==
    (tx["A"].pc # "idle" /\ ~tx["A"].adjust /\ TxArgumentsValid) =>
        IF GivenBodyCollides
        THEN /\ tx["A"].pc = "rejected"
             /\ tx["A"].exception = "ValueError"
             /\ wire = EmptyWire
             /\ txLog["A"] = <<>>
        ELSE /\ tx["A"].pc # "rejected"
             /\ tx["A"].form.body = tx["A"].orig.body

\* A transmitter was refused for its body, with adjust=False
C15_Witness ==
    /\ ~tx["A"].adjust
    /\ TxArgumentsValid
    /\ GivenBodyCollides
    /\ tx["A"].pc = "rejected"

\* The transmitter of end A sends a form with a body that is not empty and
\* an encoded appendix of no bytes
ZeroLengthAppendix ==
    /\ tx["A"].pc \notin {"idle", "rejected"}
    /\ Len(tx["A"].orig.body) > 0
    /\ Len(tx["A"].orig.appendix_encoded) = 0

\* C16: for a form with a body that is not empty and an encoded appendix of
\* length 0 the separation line carries the length 0, the receiver's read of
\* the 0 bytes of the appendix does not raise, and the receiver ends
\* finished, after its last ack, with an appendix that is an empty sequence.
C16_ZeroLengthAppendix ==
    ZeroLengthAppendix =>
        /\ rx["B"].pc = "receive_appendix" => rx["B"].appendix_length = 0
        /\ rx["B"].pc # "raised"
        /\ rx["B"].finished =>
              /\ rxLog["B"][Len(rxLog["B"])] = "ack"
              /\ ValueLen(rx["B"].form.appendix) = 0

\* C17: when the body of the form is empty the transmitter sends no body
\* line and the first line the receiver reads after the title is the
\* separation line, with no ack between the ack of the title and that line:
\* what either thread does is the cadence of a form of no body line.
C17_EmptyBodyOnWire ==
    (tx["A"].pc \notin {"idle", "rejected"} /\ Len(tx["A"].orig.body) = 0) =>
        /\ IsPrefix(txLog["A"], CadenceWithMarkerAck(0))
        /\ IsPrefix(rxLog["B"], CadenceWithMarkerAck(0))

\* The transmission from end e to the other end has completed on both sides
Completed(e) == tx[e].finished /\ rx[Other(e)].finished

\* C18: when a transmission has completed on both sides no byte is left
\* unread in either direction of the connection, and the form received is
\* the form sent, for the first form of a session and for every later one,
\* in either direction.
C18_NoCarryOver ==
    \A e \in Ends :
        Completed(e) =>
            /\ wire["A"] = <<>>
            /\ wire["B"] = <<>>
            /\ rx[Other(e)].form.title = tx[e].form.title
            /\ rx[Other(e)].form.body = tx[e].form.body
            /\ rx[Other(e)].form.appendix = tx[e].form.appendix

\* The form of a second call has been delivered to the handler, after the
\* form of a first call and the reply to it
C18_Witness ==
    /\ Completed("A")
    /\ history.requests = 2
    /\ Len(history.stored) = 1

(***************************************************************************)
(* A receiver fed by a peer that writes its own lines: the peer follows    *)
(* the cadence (one line, then the ack) but chooses the bytes of each      *)
(* line, lines longer than the ceiling among them.                         *)
(***************************************************************************)
\* the ceiling of a line (FormReceiverThread.receive_line_bytes of the
\* older module passes it to receive_until_character)
MaxBytes == 1024
MaxRawLines == 2

RawLine(n) == [i \in 1..n |-> "a"]
RawLines(sep) == {RawLine(1), RawLine(MaxBytes), RawLine(MaxBytes + 1), sep \o <<"2">>}

RawPeerSendLine ==
    /\ party.client = "raw"
    /\ rx["B"].pc \in {"receive_title", "receive_body"}
    /\ wire["B"] = <<>>
    /\ rxLog["B"] = <<>> \/ wire["A"] = Ack
    /\ Len(rx["B"].lines) < MaxRawLines
    /\ \E line \in RawLines(rx["B"].separation) :
          wire' = [wire EXCEPT !["B"] = line \o <<NL>>, !["A"] = <<>>]
    /\ UNCHANGED <<closed, tx, rx, txLog, rxLog, sessionVars>>

RawPeerSendAppendix ==
    /\ party.client = "raw"
    /\ rx["B"].pc = "receive_appendix"
    /\ wire["B"] = <<>>
    /\ wire["A"] = Ack
    /\ wire' = [wire EXCEPT !["B"] = JsonDumps(EmptyList), !["A"] = <<>>]
    /\ UNCHANGED <<closed, tx, rx, txLog, rxLog, sessionVars>>

LineInit ==
    /\ wire = EmptyWire
    /\ closed = [e \in Ends |-> FALSE]
    /\ tx = [e \in Ends |-> IdleTx]
    /\ \E sep \in Separations :
          rx = [e \in Ends |-> IF e = "B" THEN NewRx(sep) ELSE IdleRx]
    /\ txLog = NoLogs
    /\ rxLog = NoLogs
    /\ party = [client |-> "raw", handler |-> "none"]
    /\ sock = NoSocket
    /\ client = [NewClient(<<>>) EXCEPT !.pc = "none"]
    /\ handler = [NewHandler(<<>>) EXCEPT !.pc = "none"]
    /\ call_queue = <<>>
    /\ response_dict = {}
    /\ callers = EmptyBag
    /\ history = NoHistory

LineNext ==
    \/ RawPeerSendLine
    \/ RawPeerSendAppendix
    \/ RxReceiveTitle("B")
    \/ RxReceiveBody("B")
    \/ RxReceiveAppendix("B")

LineSpec == LineInit /\ [][LineNext]_vars

\* C19: a receiver that reads a title or body line of more than MaxBytes
\* bytes fails with an overflow error: it takes no step on such a line other
\* than raising OverflowError, so no longer line is ever accepted.
C19_LineCeiling ==
    [][\A e \in Ends :
          (/\ rx[e].pc \in {"receive_title", "receive_body"}
           /\ HasNewline(wire[e])
           /\ Len(LineOf(wire[e])) > MaxBytes
           /\ rx'[e] # rx[e])
          => (rx'[e].pc = "raised" /\ rx'[e].exception = "OverflowError")]_vars

\* C20: execute_command(blocking=True) ends with what the handler replied:
\* when the response to the call is a return form, the caller leaves
\* execute_command with the value of the form, and when it is an error form,
\* the caller raises the exception the form names.
C20_EndToEndCall ==
    [][\A c \in BagToSet(callers) :
          (/\ c.pc = "waiting"
           /\ HasResponse(c.call_id)
           /\ CopiesIn(c, callers') < CopiesIn(c, callers))
          => LET response == ResponseOf(c.call_id)
             IN  \E d \in BagToSet(callers') :
                    /\ CopiesIn(d, callers') > CopiesIn(d, callers)
                    /\ IF response.title = ProcureTitle("Return")
                       THEN d.pc = "returned" /\ d.value = response.appendix.v[1].x
                       ELSE response.title = <<"ERROR">>
                            => /\ d.pc = "raised"
                               /\ <<d.exception>> = SpecValue(response.body, "name")]_vars

\* C21: the form a CommandingClient transmits for a call is titled exactly
\* COMMAND, its body lines are command:c, return_mode:reply and
\* error_mode:reply and its appendix is {pos_args: pos, kw_args: kw}; the form
\* a CommandingHandler transmits is titled exactly RETURN (its appendix a
\* mapping with the one key return) or exactly ERROR.
C21_WireShape ==
    /\ (party.client = "CommandingClient" /\ tx["A"].pc \notin {"idle", "rejected"})
       => /\ tx["A"].form.title = <<"COMMAND">>
          /\ Split(tx["A"].form.body) =
                <<BodyLine("command", client.call.command_name),
                  BodyLine("return_mode", <<"reply">>),
                  BodyLine("error_mode", <<"reply">>)>>
          /\ tx["A"].form.appendix = CallArgs
    /\ (party.handler = "CommandingHandler" /\ tx["B"].pc \notin {"idle", "rejected"})
       => \/ tx["B"].form.title = <<"ERROR">>
          \/ /\ tx["B"].form.title = <<"RETURN">>
             /\ tx["B"].form.appendix.t = "dict"
             /\ Len(tx["B"].form.appendix.v) = 1
             /\ tx["B"].form.appendix.v[1].k = ReturnKey

\* The call ids of the calls that are outstanding: in the queue, taken from
\* it by the worker and not yet answered, or stored as a response
QueuedIds == {call_queue[i].call_id : i \in 1..Len(call_queue)}
InFlight == party.client = "CommandingClient" /\ client.pc \in {"wait_ack", "sending", "receiving"}
InFlightIds == IF InFlight THEN {client.call.call_id} ELSE {}
StoredIds == {r.call_id : r \in response_dict}

\* C22: no two outstanding calls carry the same call id: the calls in the
\* queue, the call in flight and the responses not yet retrieved all have
\* different ids.
C22_CallIdsUnique ==
    Cardinality(QueuedIds \cup InFlightIds \cup StoredIds)
        = Len(call_queue) + Cardinality(InFlightIds) + Cardinality(response_dict)

\* The threads of end e that read from the connection, and those that write
\* to it: the worker in the steps of run() in which it reads or writes
\* itself, the transmitter (it writes a unit, then reads the ack) and the
\* receiver (it reads a unit, then writes the ack)
Worker(e) == IF e = "A" THEN client ELSE handler
OwnEnd(e) == IF e = "A" THEN party.client = "CommandingClient"
             ELSE party.handler = "CommandingHandler"
Readers(e) ==
    {t \in {"worker"} : Worker(e).pc \in {"validate", "validate_receive",
                                          "wait_ack", "wait_request"}}
    \cup {t \in {"transmitter"} : tx[e].pc \in TxAckSteps}
    \cup {t \in {"receiver"} : rx[e].pc \in RxReadSteps}
Writers(e) ==
    {t \in {"worker"} : Worker(e).pc \in {"validate_send"}}
    \cup {t \in {"transmitter"} : tx[e].pc \in TxSendSteps}
    \cup {t \in {"receiver"} : rx[e].pc \in RxReadSteps}

C24_StopEndsHandlerCleanly ==
    [][(/\ party.handler = "CommandingHandler"
        /\ handler.pc = "wait_request"
        /\ ~handler.running
        /\ closed["B"]
        /\ handler'.pc # handler.pc)
       => handler'.pc = "exited"]_vars

\* C25: the call queue never holds more call records than the queue_size
\* the client was built with.
C25_QueueBound ==
    party.client = "CommandingClient" => Len(call_queue) <= client.queue_size

\* CommandingClient.is_polling: self._polling_interval is None
IsPolling(c) == c.polling_interval = NoneVal

\* C26: is_polling is true exactly for a client that was built with a
\* polling interval: false with polling_interval None, true with a number.
C26_PollingEnabled ==
    party.client = "CommandingClient"
    => (IsPolling(client) <=> client.polling_interval # NoneVal)

\* C27: is_interval_match(idle) returns the pair (reached, delta) with
\* delta = idle - current interval and reached exactly when delta >= 0: the
\* last call has raised nothing and its pair is that one.
C27_IntervalMatchPair ==
    client.poller.result.called
    => /\ client.poller.result.raises = "none"
       /\ client.poller.interval.t = "int"
       /\ client.poller.result.delta =
             client.poller.result.idle - client.poller.interval.v[1]
       /\ client.poller.result.reached <=> client.poller.result.delta >= 0

\* C28 as stated: a call of is_interval_match that reports reached with
\* update=True takes the next value of the generator as the interval and
\* calls the generator once; any other call leaves the interval as it was
\* and does not call the generator.
C28_AdvanceInCall ==
    [][LET p == client.poller
           q == client'.poller
       IN  (q # p /\ q.result.called /\ q.result.raises = "none")
           => IF q.result.update /\ q.result.reached
              THEN /\ q.invoked = p.invoked + 1
                   /\ q.interval = NextInterval(p.generator, p.invoked + 1)
              ELSE /\ q.invoked = p.invoked
                   /\ q.interval = p.interval]_vars

\* C28, amended: a call that reports reached with update=True leaves the
\* advance pending and no other call does; every read of the interval, by a
\* call of is_interval_match or by the interval property, carries out a
\* pending advance: it calls the generator exactly once and takes its value
\* as the interval, and without a pending advance it leaves both alone.
C28_AdvancePending ==
    [][LET p == client.poller
           q == client'.poller
       IN  q # p
           => /\ q.invoked = p.invoked + (IF p.keep_interval THEN 0 ELSE 1)
              /\ q.interval = IF p.keep_interval THEN p.interval
                              ELSE NextInterval(p.generator, p.invoked + 1)
              /\ q.keep_interval =
                    ~(/\ q.result.called
                      /\ q.result.raises = "none"
                      /\ q.result.update
                      /\ q.result.reached)]_vars

\* The interval function has been called a second time, after a call with
\* update=True that reported reached
C28_Witness ==
    /\ client.poller.generator.kind = "function"
    /\ client.poller.invoked = 2
    /\ client.poller.keep_interval
    /\ client.poller.interval = NextInterval(client.poller.generator, 2)

(***************************************************************************)
(* C29: Form.valid                                                         *)
(***************************************************************************)
\* str.isspace() over the model's alphabet
IsWhitespace(c) == c \in {SP, TAB, NL}

\* The form the transmitter of end A was constructed with
GivenForm == tx["A"].orig
FormGiven == tx["A"].pc # "idle" /\ GivenForm.error = "none"

\* Reading form.valid returns True
ValidIsTrue(f) == ~FormValidRaises(f) /\ FormValid(f)

ValidIsFalse(f) == ~FormValidRaises(f) /\ ~FormValid(f)

\* A title of whitespace characters only
BlankTitle(title) ==
    Len(title) > 0 /\ \A i \in 1..Len(title) : IsWhitespace(title[i])

\* The appendix value is a container, and it is empty
EmptyContainer(x) == x.t \in {"str", "list", "dict"} /\ Len(x.v) = 0
FilledContainer(x) == x.t \in {"str", "list", "dict"} /\ Len(x.v) > 0

\* C30: a form whose body is empty and whose appendix value is an empty
\* container is empty and not valid whatever its title; a form with an empty
\* or blank title is not valid; a form with only one of body and appendix
\* empty is not empty; and the constructor of a FormTransmitterThread given a
\* form that is not valid raises ValueError before anything is sent
C30_EmptyAndInvalidForms ==
    FormGiven =>
        /\ (Len(GivenForm.body) = 0 /\ EmptyContainer(GivenForm.appendix))
            => FormEmpty(GivenForm) /\ ValidIsFalse(GivenForm)
        /\ (Len(GivenForm.title) = 0 \/ BlankTitle(GivenForm.title))
            => ValidIsFalse(GivenForm)
        /\ ( \/ Len(GivenForm.body) > 0 /\ EmptyContainer(GivenForm.appendix)
             \/ Len(GivenForm.body) = 0 /\ FilledContainer(GivenForm.appendix) )
            => ~FormEmpty(GivenForm)
        /\ ValidIsFalse(GivenForm)
            => /\ tx["A"].pc = "rejected"
               /\ tx["A"].exception = "ValueError"
               /\ txLog["A"] = <<>>
               /\ wire = EmptyWire

(***************************************************************************)
(* The error reply: a command has raised an exception in execute_form, and *)
(* the handler sends ErrorForm(exception).form to the client               *)
(***************************************************************************)
MaxMessageLen == 3
MessageChars == {"a", ":", ";", NL, SP}
Messages == SeqsUpTo(MessageChars, MaxMessageLen)

ErrorInit ==
    /\ wire = EmptyWire
    /\ closed = [e \in Ends |-> FALSE]
    /\ \E name \in ExceptionNames, message \in Messages :
        /\ handler = [NewHandler(<<>>) EXCEPT !.pc = "sending",
                                              !.exception = Exc(name, message)]
        /\ tx = [e \in Ends |-> IF e = "B"
                                THEN NewTx(ErrorFormOf(Exc(name, message)),
                                           DefaultSeparation, TRUE)
                                ELSE IdleTx]
    /\ rx = [e \in Ends |-> IF e = "A" THEN NewRx(DefaultSeparation) ELSE IdleRx]
    /\ txLog = NoLogs
    /\ rxLog = NoLogs
    /\ party = [client |-> "peer", handler |-> "CommandingHandler"]
    /\ sock = NoSocket
    /\ client = [NewClient(<<>>) EXCEPT !.pc = "none"]
    /\ call_queue = <<>>
    /\ response_dict = {}
    /\ callers = EmptyBag
    /\ history = NoHistory

ErrorSpec == ErrorInit /\ [][FormNext]_vars

\* The message line of the error form the handler is sending, after "message:"
MessageLine == Split(tx["B"].orig.body)[2]
SentMessage == SubSeq(MessageLine, Len(<<"message", ":">>) + 1, Len(MessageLine))
ErrorFormGiven ==
    /\ handler.pc = "sending"
    /\ handler.exception # NoExc
    /\ tx["B"].pc # "idle"
    /\ tx["B"].orig.title = TypeOf("Error")

\* s without its newlines
RECURSIVE WithoutNewlines(_)
WithoutNewlines(s) ==
    IF Len(s) = 0 THEN <<>>
    ELSE IF s[1] = NL THEN WithoutNewlines(Tail(s))
    ELSE <<s[1]>> \o WithoutNewlines(Tail(s))

\* C31 as stated: the message line of an error form is the exception's
\* message with every ":" replaced by ";" and every newline replaced by a
\* space, all other characters as they are
C31_NewlineToSpace ==
    ErrorFormGiven =>
        LET message == handler.exception.message
        IN  /\ Len(SentMessage) = Len(message)
            /\ \A i \in 1..Len(message) :
                SentMessage[i] = IF message[i] = ":" THEN ";"
                                 ELSE IF message[i] = NL THEN SP
                                 ELSE message[i]

\* C31: the message line of an error form is the exception's message with
\* every newline removed and every ":" replaced by ";", all other characters
\* as they are and in their order; the line holds exactly one ":" and no
\* newline
C31_NewlineRemoved ==
    ErrorFormGiven =>
        LET message == WithoutNewlines(handler.exception.message)
        IN  /\ Len(Split(tx["B"].orig.body)) = 2
            /\ SubSeq(MessageLine, 1, 2) = <<"message", ":">>
            /\ Len(SentMessage) = Len(message)
            /\ \A i \in 1..Len(message) :
                SentMessage[i] = IF message[i] = ":" THEN ";" ELSE message[i]
            /\ \A i \in 1..Len(SentMessage) : SentMessage[i] \notin {":", NL}

\* An error form for a message with a newline and a ":" has reached the client
C31_Witness ==
    /\ ErrorFormGiven
    /\ \E i, j \in 1..Len(handler.exception.message) :
        handler.exception.message[i] = NL /\ handler.exception.message[j] = ":"
    /\ tx["B"].finished
    /\ rx["A"].finished
    /\ rx["A"].form.body = tx["B"].orig.body

(***************************************************************************)
(* C32: the forms CommandForm and ReturnForm wrap                          *)
(***************************************************************************)
\* Form.__eq__: the titles and the appendices are equal, the lines of the
\* bodies are the same in any order
BodyLineSet(f) == {Split(f.body)[i] : i \in 1..Len(Split(f.body))}
SameForm(f, g) ==
    /\ f.title = g.title
    /\ BodyLineSet(f) = BodyLineSet(g)
    /\ Len(Split(f.body)) = Len(Split(g.body))
    /\ f.appendix = g.appendix

\* TestCommandForm.basic_form and TestReturnForm.basic_form for a command
\* without arguments and for a return value
BasicCommandForm(name) ==
    NewForm(<<"COMMAND">>,
            Join(<<BodyLine("error", <<"reply">>), BodyLine("return", <<"reply">>),
                   BodyLine("command", name), BodyLine("pos_args", DecStr(0))>>),
            CallArgs, "json")
BasicReturnForm(value) ==
    NewForm(<<"RETURN">>, Join(<<BodyLine("type", TypeStr(value))>>),
            DictVal(<<Pair(ReturnKey, value)>>), "json")

\* C32: the form a CommandForm built from (name, pos_args, kw_args) wraps is
\* equal to Form('COMMAND', [error:reply, return:reply, command:<name>,
\* pos_args:<count>], {pos_args, kw_args}); a CommandForm is built without an
\* exception from a received Form that is titled COMMAND and carries the
\* command and its arguments; the form a ReturnForm built from a value wraps
\* is equal to Form('RETURN', ['type:<type>'], {'return': value})
C32_CommandingFormRoundTrip ==
    /\ ( /\ party.client = "CommandingClient"
         /\ tx["A"].pc \notin {"idle", "rejected"}
         /\ client.call # NoCall )
        => SameForm(tx["A"].orig, BasicCommandForm(client.call.command_name))
    /\ ( /\ rx["B"].pc = "finished"
         /\ rx["B"].form.title = <<"COMMAND">>
         /\ rx["B"].form.appendix = CallArgs
         /\ HasSpecKey(rx["B"].form.body, "command") )
        => EvaluateCommandingForm(rx["B"].form).raises = "none"
    /\ ( /\ party.handler = "peer"
         /\ tx["B"].pc \notin {"idle", "rejected"}
         /\ tx["B"].orig.title # TypeOf("Error") )
        => SameForm(tx["B"].orig, BasicReturnForm(IntVal(1)))

(***************************************************************************)
(* C33: no call form from a form that does not describe a call             *)
(***************************************************************************)
\* The keys CommandForm.procure_body writes
RequiredBodyKeys == {"command", "return_mode", "error_mode"}

\* The appendix is a dict with the keys pos_args and kw_args
HasCallArgs(x) ==
    /\ x.t = "dict"
    /\ \E i \in 1..Len(x.v) : x.v[i].k = PosArgsKey
    /\ \E i \in 1..Len(x.v) : x.v[i].k = KwArgsKey

NotACallForm(f) ==
    \/ f.title # <<"COMMAND">>
    \/ \E key \in RequiredBodyKeys : ~HasSpecKey(f.body, key)
    \/ ~HasCallArgs(f.appendix)

MaxAttempts == 3
MaxConnects == 6

\* SocketWrapper(sock, connected).connect(ip, port, attempts, delay) up to
\* its loop
ConnectInit ==
    /\ \E attempts \in 0..MaxAttempts, connected \in BOOLEAN :
        sock = [pc |-> "loop", connected |-> connected, given |-> attempts,
                attempts |-> attempts, made |-> 0, exception |-> "None"]
    /\ wire = EmptyWire
    /\ closed = [e \in Ends |-> FALSE]
    /\ tx = [e \in Ends |-> IdleTx]
    /\ rx = [e \in Ends |-> IdleRx]
    /\ txLog = NoLogs
    /\ rxLog = NoLogs
    /\ party = [client |-> "none", handler |-> "none"]
    /\ client = [NewClient(<<>>) EXCEPT !.pc = "none"]
    /\ handler = [NewHandler(<<>>) EXCEPT !.pc = "none"]
    /\ call_queue = <<>>
    /\ response_dict = {}
    /\ callers = EmptyBag
    /\ history = NoHistory

\* while not self.connected
ConnectLoopTest(s) == ~s.connected

\* The test of the while loop
ConnectLoop ==
    /\ sock.pc = "loop"
    /\ sock' = [sock EXCEPT !.pc = IF ConnectLoopTest(sock) THEN "try" ELSE "check"]
    /\ UNCHANGED <<connVars, formVars, party, client, handler, call_queue,
                   response_dict, callers, history>>

\* The body of the loop: sleep, sock.connect(address), and the except block
\* when it raises
ConnectAttempt ==
    /\ sock.pc = "try"
    /\ sock.made < MaxConnects
    /\ \E succeeds \in BOOLEAN :
        sock' = IF succeeds
                THEN [sock EXCEPT !.pc = "loop", !.made = @ + 1, !.connected = TRUE]
                ELSE [sock EXCEPT !.pc = "loop", !.made = @ + 1, !.connected = FALSE,
                                  !.attempts = @ - 1]
    /\ UNCHANGED <<connVars, formVars, party, client, handler, call_queue,
                   response_dict, callers, history>>

\* if self.attempts == 0: the wrapper has no attribute attempts
ConnectCheck ==
    /\ sock.pc = "check"
    /\ sock' = [sock EXCEPT !.pc = "raised", !.exception = "AttributeError"]
    /\ UNCHANGED <<connVars, formVars, party, client, handler, call_queue,
                   response_dict, callers, history>>

ConnectNext ==
    \/ ConnectLoop
    \/ ConnectAttempt
    \/ ConnectCheck

ConnectSpec == ConnectInit /\ [][ConnectNext]_vars

\* C34: connect makes at most `attempts` connection attempts; when they are
\* used up without a success the call has ended with ConnectionRefusedError,
\* and when the wrapper is connected the call does not raise: it ends by
\* returning, with connected = True
C34_ConnectBounded ==
    /\ sock.made <= sock.given
    /\ sock.pc = "try" => sock.made < sock.given
    /\ sock.pc = "raised"
        => ~sock.connected /\ sock.exception = "ConnectionRefusedError"
    /\ sock.connected => sock.pc \in {"loop", "check", "returned"}

(***************************************************************************)
(* One form transmission with separations that hold digits                 *)
(***************************************************************************)
DigitSeparations == {<<"$">>, <<"$", "1">>, <<"1">>, <<"5">>}

MarkerInit ==
    /\ wire = EmptyWire
    /\ closed = [e \in Ends |-> FALSE]
    /\ \E app \in AppendixInputs, enc \in Encoders, sep \in DigitSeparations :
            /\ tx = [e \in Ends |-> IF e = "A"
                                    THEN NewTx(NewForm(<<"T">>, <<"a">>, app, enc), sep, TRUE)
                                    ELSE IdleTx]
            /\ rx = [e \in Ends |-> IF e = "B" THEN NewRx(sep) ELSE IdleRx]
    /\ txLog = NoLogs
    /\ rxLog = NoLogs
    /\ party = [client |-> "none", handler |-> "none"]
    /\ sock = NoSocket
    /\ client = [NewClient(<<>>) EXCEPT !.pc = "none"]
    /\ handler = [NewHandler(<<>>) EXCEPT !.pc = "none"]
    /\ call_queue = <<>>
    /\ response_dict = {}
    /\ callers = EmptyBag
    /\ history = NoHistory

MarkerSpec == MarkerInit /\ [][FormNext]_vars

\* what is in the log
Logged(log, what) == \E i \in 1..Len(log) : log[i] = what

\* C35: for every separation the sender's check_separation accepts and every
\* encoded appendix, once the receiver has read the marker line the appendix
\* length it has derived is the number of bytes of the appendix the sender
\* encoded, and the appendix bytes it reads are exactly those bytes
C35_MarkerLengthHandOff ==
    tx["A"].pc \notin {"idle", "rejected"} =>
        /\ Logged(rxLog["B"], "marker")
            => rx["B"].appendix_length = Len(tx["A"].form.appendix_encoded)
        /\ Logged(rxLog["B"], "appendix")
            => rx["B"].appendix = tx["A"].form.appendix_encoded

(***************************************************************************)
(* C36: stop and wait                                                      *)
(***************************************************************************)
\* How often the log holds the entry
CountOf(log, what) == Cardinality({i \in 1..Len(log) : log[i] = what})

\* A body line is sent only right after an acknowledgement was read
LineAfterAck(log) ==
    \A i \in 1..Len(log) : log[i] = "line" => i > 1 /\ log[i - 1] = "ack"

FormLiveSpec == FormInit /\ [][FormNext]_vars /\ WF_vars(FormNext)

\* C37: when a transmitter for a valid form and a receiver with the same
\* separation have been started on the two ends of a connection, both
\* threads reach finished = True
C37_TransferTerminates ==
    (tx["A"].pc # "rejected") => <>(tx["A"].finished /\ rx["B"].finished)

(***************************************************************************)
(* C38: the idle worker                                                    *)
(***************************************************************************)
\* C38: after the handshake, while running is true, a pass of the worker's
\* loop that finds the call queue empty leaves the worker in its loop, the
\* first pass before any call included, so that a call enqueued later is
\* still taken from the queue
C38_IdleWorkerStaysAlive ==
    [][ ( /\ party.client = "CommandingClient"
          /\ history.client_validated = "ok"
          /\ client.pc = "loop"
          /\ client.running
          /\ Len(call_queue) = 0 )
        => /\ client'.pc = "loop"
           /\ client'.running ]_vars

(***************************************************************************)
(* C39: the flags of the two thread classes                                *)
(***************************************************************************)
\* finished = True implies running = False and exception is None
FlagsAgree(t) == t.finished => ~t.running /\ t.exception = "None"

\* C39: for every transmitter and every receiver, finished implies not
\* running and no exception; a thread that has recorded an exception does not
\* become finished; and receive_form hands a form to its caller only when
\* the receiver is finished, the form being the one it has built, while with
\* an exception recorded receive_form raises and the caller's run() ends
C39_ThreadFlags ==
    [][ /\ \A e \in Ends :
            /\ FlagsAgree(tx[e]) /\ FlagsAgree(rx[e])
            /\ FlagsAgree(tx'[e]) /\ FlagsAgree(rx'[e])
            /\ tx[e].exception # "None" => ~tx'[e].finished
            /\ rx[e].exception # "None" => ~rx'[e].finished
        /\ history'.stored # history.stored
            => /\ rx["A"].finished
               /\ rx["A"].form # NoForm /\ rx["A"].form.error = "none"
               /\ \E r \in response_dict' : r.response = rx["A"].form
        /\ history'.taken # history.taken
            => rx["B"].finished /\ rx["B"].form # NoForm /\ rx["B"].form.error = "none"
        /\ (party.client = "CommandingClient" /\ client.pc = "receiving"
            /\ rx["A"].pc = "raised" /\ client'.pc # client.pc)
            => client'.pc = "exited" /\ response_dict' = response_dict
        /\ (party.handler = "CommandingHandler" /\ handler.pc = "receiving"
            /\ rx["B"].pc = "raised" /\ handler'.pc # handler.pc)
            => handler'.pc \in {"crashed", "exited"} /\ history'.taken = history.taken
      ]_vars

\* A receiver has ended with an exception, its finished flag unset, after the
\* transmitter of the other end has finished, and the caller of receive_form
\* has ended on the exception
C39_Witness ==
    /\ party.handler = "CommandingHandler"
    /\ handler.pc = "crashed"
    /\ history.taken = 0
    /\ rx["B"] = IdleRx
    /\ \E k \in 1..Len(rxLog["B"]) : rxLog["B"][k] = "appendix"
    /\ tx["A"].finished /\ ~tx["A"].running /\ tx["A"].exception = "None"

(***************************************************************************)
(* C40: adjust_body_string is sufficient and idempotent                    *)
(***************************************************************************)
\* The sender a second construction with adjust=True gives for the form the
\* first sender holds
SecondSender == NewTx(tx["A"].form, tx["A"].separation, TRUE)

\* C40: after a sender is constructed with adjust=True, for every separation
\* check_separation accepts, no line of the body of the sender's form has the
\* separation as a prefix, and a second sender constructed with adjust=True
\* on that form is accepted and leaves the body as it is
C40_AdjustSufficientIdempotent ==
    (tx["A"].adjust /\ tx["A"].pc # "rejected" /\ tx["A"].form # NoForm)
        => /\ CheckSeparation(tx["A"].separation) = "none"
           /\ \A i \in 1..Len(Split(tx["A"].form.body)) :
                ~StartsWith(Split(tx["A"].form.body)[i], tx["A"].separation)
           /\ ~BodyCollides(tx["A"].form.body, tx["A"].separation)
           /\ SecondSender.pc # "rejected"
           /\ SecondSender.form.body = tx["A"].form.body

\* A sender constructed with adjust=True and a separation that begins with a
\* space, for a body with a line that had the separation as its prefix, has
\* sent its body
C40_Witness ==
    /\ tx["A"].adjust /\ tx["A"].finished
    /\ tx["A"].separation = <<SP, "$">>
    /\ \E i \in 1..Len(Split(tx["A"].orig.body)) :
            StartsWith(Split(tx["A"].orig.body)[i], tx["A"].separation)
    /\ tx["A"].form.body # tx["A"].orig.body
    /\ SecondSender.form.body = tx["A"].form.body

====
